---------------------------- MODULE Spec2Model ----------------------------
(***************************************************************************)
(* Frame-processing pipeline of the ASCII video player:                    *)
(*   - VideoProcessor.convertToASCII   (ASCII Converter)                   *)
(*   - VideoProcessor.adaptQuality     (Quality Controller)                *)
(*   - VideoProcessor.extractFrame / extractFrameWithRetry /               *)
(*     extractFrameInternal            (Frame Cache and Frame Sampler)     *)
(*   - VideoProcessor.loadVideo        (Source loader)                     *)
(*   - ASCIIRenderer                   (Playback Driver, live and          *)
(*                                      precomputed mode)                  *)
(*   - VideoPreprocessor and the application's handlers                    *)
(*                                     (Precompute pipeline)               *)
(*                                                                         *)
(* One module, several specifications over groups of variables:            *)
(*   SpecConv       the converter applied to bounded pixel buffers         *)
(*   SpecGlyph      the converter applied to pairs of one-pixel blocks     *)
(*   SpecQuality    the quality controller fed bounded latency sequences   *)
(*   SpecReset      the quality controller across cleanup() and a new load *)
(*   SpecCache      concurrent extractFrame calls against one processor    *)
(*   SpecSampler    the same calls with source faults and cleanup(), on    *)
(*                  either device class                                    *)
(*   SpecRace       the calls with seek timeouts and source errors         *)
(*   SpecDrift      SpecRace with seeks across the whole source            *)
(*   SpecOverlap    SpecRace with more overlapping calls                   *)
(*   SpecLoad       loadVideo with its events and timers                   *)
(*   SpecPlayer     the live drive loop with its timers and callbacks      *)
(*   SpecPlayerLive the live drive loop under a running event loop         *)
(*   SpecWait       the live drive loop with long waits between events     *)
(*   SpecLoss       the live drive loop with a source released under it    *)
(*   SpecFrames     the drive loop over a list of preprocessed frames      *)
(*   SpecSeek       the same loop under every public call of the renderer  *)
(*   SpecPre        the precompute pipeline: runs, storage, settings       *)
(*   SpecPreLong    the precompute pipeline on a clip of over 100 frames   *)
(*                                                                         *)
(* Time units.  In SpecCache a time is an integer number of quarter        *)
(* centiseconds (2.5 ms), so that Number.toFixed(2) is a real rounding.    *)
(***************************************************************************)
EXTENDS Integers, Sequences, FiniteSets, TLC

VARIABLES
    \* ---- ASCII Converter (SpecConv) -------------------------------------
    cvImage,        \* the ImageData handed to convertToASCII
    cvSettings,     \* the settings handed to convertToASCII
    cvFrame,        \* the string convertToASCII returned (a sequence of characters)
    cvDone,         \* TRUE once convertToASCII has returned
    cvEmpty,        \* the frame createEmptyFrame returned for cvSettings
    \* ---- Quality Controller (SpecQuality) -------------------------------
    frameTimes,     \* performanceMonitor.frameTimes, oldest sample first
    qcSettings,     \* the settings object the caller passes to adaptQuality
    qcAdapted,      \* the settings adaptQuality returned last (NoSettings before)
    qcCalls,        \* number of adaptQuality calls made
    qcShifts,       \* number of times the latency level changed between calls
    qcFed,          \* every sample handed to adaptQuality so far, in arrival order
    \* ---- Frame Cache and Frame Sampler (SpecCache) ----------------------
    isMobile,       \* the device class the application detected (app.isMobile)
    video,          \* this.video: the loaded source, or NoVideo
    duration,       \* this.duration, in time units
    readyState,     \* video.readyState, 0 .. 4
    videoTime,      \* video.currentTime, in time units
    shownTime,      \* the position of the frame the source currently presents
    seeking,        \* TRUE while a seek is in progress (its seeked event is due)
    closures,       \* the sampling attempts that still have a listener or a timer
    frameCache,     \* this.frameCache: the Map's entries in insertion order
    call,           \* per caller: the extractFrame call it has made last
    nextTime,       \* the next centisecond no caller has requested yet
    faults,         \* number of source faults so far (stalls, timeouts, errors)
    offPath,        \* number of requests that may still leave the forward path
    run,            \* keys inserted by a run of non-overlapping successful calls
    \* ---- Playback Driver, live mode (SpecPlayer) ------------------------
    now,            \* performance.now(), in time units
    container,      \* container.textContent: what the display shows
    isPlaying,      \* ASCIIRenderer.isPlaying
    isRealtime,     \* ASCIIRenderer.isRealtime
    animationId,    \* ASCIIRenderer.animationId (NoHandle for null)
    startTime,      \* ASCIIRenderer.startTime
    currentTime,    \* ASCIIRenderer.currentTime, in time units
    rendDuration,   \* ASCIIRenderer.duration
    rSettings,      \* ASCIIRenderer.settings
    audioPlaying,   \* TRUE while the audio element plays
    isRecording,    \* VideoRecorder.isRecording
    recordedFrames, \* VideoRecorder.recordedFrames.length
    ticks,          \* per tick chain: the stage its renderRealtime tick is in
    stray,          \* what ticks did that a pause() or stop() had left behind
    stoppedOnLoss,  \* TRUE when the last tick found the source gone and ran stop()
    \* ---- Playback Driver, precomputed mode (SpecFrames) -----------------
    frames,         \* ASCIIRenderer.frames
    fps,            \* ASCIIRenderer.fps (frameDelay is 1000 / fps)
    currentFrame,   \* ASCIIRenderer.currentFrame
    audioStarts,    \* number of playAudio() calls
    lastRender,     \* the clock at the last render() call
    staleRenders,   \* pending render callbacks whose handle has been overwritten
    \* ---- Source loader (SpecLoad) ---------------------------------------
    load,           \* the last loadVideo call: its promise, closure and element
    \* ---- Precompute pipeline (SpecPre) ----------------------------------
    currentVideo,        \* app.currentVideo: the File, NoFile for null
    loading,             \* the File app.loadVideo is loading, NoFile if none
    inputs,              \* the quality select and the width and height inputs
    appSettings,         \* app.settings
    isPreprocessed,      \* app.isPreprocessed
    isPreprocessing,     \* VideoPreprocessor.isPreprocessing
    preprocessedFrames,  \* VideoPreprocessor.preprocessedFrames
    currentVideoId,      \* VideoPreprocessor.currentVideoId
    preRuns,             \* the startPreprocessing invocations
    localStorage,        \* the ascii_preprocessed_ items of window.localStorage
    playbackMode,        \* what app.play() started: "precomputed", "live", "none"
    lateFrames,          \* frames delivered by runs after they were cancelled
    frameErrors          \* extractFrame failures of the runs so far

convVars == <<cvImage, cvSettings, cvFrame, cvDone, cvEmpty>>

qualityVars == <<frameTimes, qcSettings, qcAdapted, qcCalls, qcShifts, qcFed>>

cacheVars == <<isMobile, video, duration, readyState, videoTime, shownTime, seeking,
               closures, frameCache, call, nextTime, faults, offPath, run>>

playerVars == <<now, container, isPlaying, isRealtime, animationId, startTime,
                currentTime, rendDuration, rSettings, audioPlaying, isRecording,
                recordedFrames, ticks, stray, stoppedOnLoss>>

framesVars == <<frames, fps, currentFrame, audioStarts, lastRender, staleRenders>>

loadVars == <<load>>

preVars == <<currentVideo, loading, inputs, appSettings, isPreprocessed, isPreprocessing,
             preprocessedFrames, currentVideoId, preRuns, localStorage, playbackMode,
             lateFrames, frameErrors>>

vars == <<convVars, qualityVars, cacheVars, playerVars, framesVars, loadVars, preVars>>

----------------------------------------------------------------------------
(* Arithmetic helpers (Math.max, Math.min, Math.floor, Math.round on        *)
(* non-negative rationals given as numerator / denominator).                *)

Max(a, b) == IF a >= b THEN a ELSE b

Min(a, b) == IF a <= b THEN a ELSE b

Abs(a) == IF a < 0 THEN -a ELSE a

\* Math.round(n / d) for n >= 0, d > 0: round half up.
RoundDiv(n, d) == (2 * n + d) \div (2 * d)

RECURSIVE SeqSum(_)
SeqSum(s) == IF s = <<>> THEN 0 ELSE Head(s) + SeqSum(Tail(s))

----------------------------------------------------------------------------
(* ASCII Converter: VideoProcessor.convertToASCII                           *)

\* Bounds of the buffers and grids the converter is applied to.
MaxSrc == 5
MaxOut == 3

\* asciiChars = " .:-=+*#%@"
asciiChars == <<" ", ".", ":", "-", "=", "+", "*", "#", "%", "@">>

charCount == Len(asciiChars)

\* Pixel contents the buffers are filled with: data[i] for byte index i.
Patterns == {"black", "white", "ramp"}

PatternByte(p, i) ==
    CASE p = "black" -> 0
      [] p = "white" -> 255
      [] OTHER       -> (i * 29) % 256

\* An ImageData of width x height RGBA samples: data has width*height*4 bytes,
\* indexed from 0.
ImageData(w, h, p) ==
    [width |-> w, height |-> h,
     data |-> [i \in 0 .. (w * h * 4 - 1) |-> PatternByte(p, i)]]

\* for (let v = start; v <= max; v += step): the values v takes, in order.
RECURSIVE LoopValues(_, _, _)
LoopValues(v, max, step) ==
    IF v <= max THEN <<v>> \o LoopValues(v + step, max, step) ELSE <<>>

\* The inner dx loop of one block row: sum of channel ch over dx = from .. stepX-1.
RECURSIVE RowSum(_, _, _, _, _, _)
RowSum(data, dyWidth4, x, dx, stepX, ch) ==
    IF dx < stepX
    THEN data[dyWidth4 + (x + dx) * 4 + ch]
         + RowSum(data, dyWidth4, x, dx + 1, stepX, ch)
    ELSE 0

\* The dy loop of one block: sum of channel ch over the stepX x stepY block at (x, y).
RECURSIVE BlockSum(_, _, _, _, _, _, _, _)
BlockSum(data, width4, x, y, dy, stepX, stepY, ch) ==
    IF dy < stepY
    THEN RowSum(data, (y + dy) * width4, x, 0, stepX, ch)
         + BlockSum(data, width4, x, y, dy + 1, stepX, stepY, ch)
    ELSE 0

\* A plausible slip: the weighted sum of the block is not divided by count.
GrayOfBlockUndivided(data, width4, x, y, stepX, stepY) ==
    LET rSum  == BlockSum(data, width4, x, y, 0, stepX, stepY, 0)
        gSum  == BlockSum(data, width4, x, y, 0, stepX, stepY, 1)
        bSum  == BlockSum(data, width4, x, y, 0, stepX, stepY, 2)
    IN RoundDiv(rSum * 299 + gSum * 587 + bSum * 114, 1000)

\* gray = Math.round((rSum*0.299 + gSum*0.587 + bSum*0.114) / count)
GrayOfBlock(data, width4, x, y, stepX, stepY) ==
    LET rSum  == BlockSum(data, width4, x, y, 0, stepX, stepY, 0)
        gSum  == BlockSum(data, width4, x, y, 0, stepX, stepY, 1)
        bSum  == BlockSum(data, width4, x, y, 0, stepX, stepY, 2)
        count == stepX * stepY
    IN RoundDiv(rSum * 299 + gSum * 587 + bSum * 114, 1000 * count)

\* Mutation of CharIndex: the index is taken modulo the ramp's length.
CharIndexModulo(gray) == gray % charCount

\* charIndex = Math.min(charCount - 1, Math.floor(gray * (charCount - 1) / 255))
CharIndex(gray) == Min(charCount - 1, (gray * (charCount - 1)) \div 255)

\* The step of one axis: Math.max(1, Math.floor(size / asciiSize)).
StepOf(size, asciiSize) == Max(1, size \div asciiSize)

\* The block origins of one axis: for (v = 0; v <= size - step; v += step).
BlockStarts(size, asciiSize) ==
    LoopValues(0, size - StepOf(size, asciiSize), StepOf(size, asciiSize))

\* The indices of data the loops of the block at (x, y) read:
\* pixelIndex, pixelIndex + 1 and pixelIndex + 2 for every dy, dx.
BlockReads(width, x, y, stepX, stepY) ==
    {(y + dy) * (width * 4) + (x + dx) * 4 + ch :
        dy \in 0 .. (stepY - 1), dx \in 0 .. (stepX - 1), ch \in 0 .. 2}

\* lines.join('\n') on a list of character sequences.
RECURSIVE JoinLines(_)
JoinLines(lines) ==
    IF lines = <<>> THEN <<>>
    ELSE IF Len(lines) = 1 THEN Head(lines)
    ELSE Head(lines) \o <<"\n">> \o JoinLines(Tail(lines))

\* The list of lines convertToASCII builds before joining them.
ConvertLines(imageData, asciiWidth, asciiHeight) ==
    LET width  == imageData.width
        height == imageData.height
        stepX  == Max(1, width \div asciiWidth)
        stepY  == Max(1, height \div asciiHeight)
        maxY   == height - stepY
        maxX   == width - stepX
        width4 == width * 4
        ys     == LoopValues(0, maxY, stepY)
        xs     == LoopValues(0, maxX, stepX)
    IN [j \in 1 .. Len(ys) |->
          [i \in 1 .. Len(xs) |->
             asciiChars[CharIndex(GrayOfBlock(imageData.data, width4,
                                              xs[i], ys[j], stepX, stepY)) + 1]]]

ConvertToASCII(imageData, settings) ==
    JoinLines(ConvertLines(imageData, settings.asciiWidth, settings.asciiHeight))

\* frame.split('\n'): the lines of a frame string.
RECURSIVE SplitLines(_)
SplitLines(frame) ==
    IF \A i \in 1 .. Len(frame) : frame[i] # "\n" THEN <<frame>>
    ELSE LET k == CHOOSE i \in 1 .. Len(frame) :
                     frame[i] = "\n" /\ \A j \in 1 .. (i - 1) : frame[j] # "\n"
         IN <<SubSeq(frame, 1, k - 1)>> \o SplitLines(SubSeq(frame, k + 1, Len(frame)))

\* The number of text lines of a frame string (the empty string has none).
NumLines(frame) == IF frame = <<>> THEN 0 ELSE Len(SplitLines(frame))

\* The longest line of a frame string.
MaxLineLen(frame) ==
    LET ls == SplitLines(frame)
    IN CHOOSE n \in {Len(ls[i]) : i \in 1 .. Len(ls)} :
          \A i \in 1 .. Len(ls) : Len(ls[i]) <= n

\* One row of createEmptyFrame: width blanks and a line feed.
EmptyRow(width) == [x \in 1 .. width |-> " "] \o <<"\n">>

\* createEmptyFrame(width, height): height rows, each closed by a line feed.
RECURSIVE CreateEmptyFrame(_, _)
CreateEmptyFrame(width, height) ==
    IF height <= 0 THEN <<>>
    ELSE EmptyRow(width) \o CreateEmptyFrame(width, height - 1)

\* No empty frame has been made.
NotCreated == <<"none">>

\* The converter group while no conversion is modelled.
ConvIdle ==
    /\ cvImage = ImageData(0, 0, "black")
    /\ cvSettings = [asciiWidth |-> 1, asciiHeight |-> 1]
    /\ cvFrame = <<>>
    /\ cvDone = FALSE
    /\ cvEmpty = NotCreated

ConvInputs ==
    /\ cvImage \in {ImageData(w, h, p) : w \in 0 .. MaxSrc, h \in 0 .. MaxSrc, p \in Patterns}
    /\ cvSettings \in [asciiWidth : 1 .. MaxOut, asciiHeight : 1 .. MaxOut]
    /\ cvFrame = <<>>
    /\ cvDone = FALSE
    /\ cvEmpty = NotCreated

\* The values of a colour channel of an ImageData (Uint8ClampedArray).
GrayLevels == 0 .. 255

\* An ImageData of two pixels side by side, each a shade of gray.
GrayPair(g1, g2) ==
    [width |-> 2, height |-> 1,
     data |-> [i \in 0 .. 7 |-> IF i % 4 = 3 THEN 255 ELSE IF i < 4 THEN g1 ELSE g2]]

\* Two blocks of one pixel each, of every pair of luminances.
GlyphInputs ==
    /\ cvImage \in {GrayPair(g1, g2) : g1 \in GrayLevels, g2 \in GrayLevels}
    /\ cvSettings = [asciiWidth |-> 2, asciiHeight |-> 1]
    /\ cvFrame = <<>>
    /\ cvDone = FALSE
    /\ cvEmpty = NotCreated

\* The position of a glyph in the ramp asciiChars, from 0.
GlyphIndex(ch) == CHOOSE k \in 0 .. (charCount - 1) : asciiChars[k + 1] = ch

\* const asciiFrame = convertToASCII(imageData, settings)
Convert ==
    /\ ~cvDone
    /\ cvFrame' = ConvertToASCII(cvImage, cvSettings)
    /\ cvDone' = TRUE
    /\ UNCHANGED <<cvImage, cvSettings, cvEmpty>>

\* The catch block of renderRealtime: the sampler failed and the driver shows
\* createEmptyFrame(adaptedSettings.asciiWidth, adaptedSettings.asciiHeight).
ShowEmptyFrame ==
    /\ cvEmpty = NotCreated
    /\ cvEmpty' = CreateEmptyFrame(cvSettings.asciiWidth, cvSettings.asciiHeight)
    /\ UNCHANGED <<cvImage, cvSettings, cvFrame, cvDone>>


----------------------------------------------------------------------------
(* Quality Controller: VideoProcessor.adaptQuality                          *)

\* performanceMonitor.maxSamples
maxSamples == 10

\* performanceMonitor.targetFrameTime (ms)
targetFrameTime == 33

\* Bounds of the latency streams fed to the controller: number of calls, and
\* number of changes of latency level within one stream.
MaxAdaptCalls == 12
MaxShifts == 2

\* Per-frame latencies (ms) fed to the controller.
Latencies == {10, 16, 17, 49, 50, 60}

\* Settings a caller holds: getDefaultSettings (120 x 40, 60 x 20 on mobile) and
\* values typed into the width / height inputs, which updateSettings takes
\* through parseInt without clamping.
SettingsChoices ==
    { [asciiWidth |-> 120, asciiHeight |-> 40],
      [asciiWidth |-> 60,  asciiHeight |-> 20],
      [asciiWidth |-> 200, asciiHeight |-> 80],
      [asciiWidth |-> 70,  asciiHeight |-> 24],
      [asciiWidth |-> 40,  asciiHeight |-> 10],
      [asciiWidth |-> 250, asciiHeight |-> 100] }

NoSettings == [asciiWidth |-> 0, asciiHeight |-> 0]

\* A window that drops the newest sample on overflow (pop in place of shift).
PushSampleDropNewest(window, frameTime) ==
    LET pushed == Append(window, frameTime)
    IN IF Len(pushed) > maxSamples THEN SubSeq(pushed, 1, maxSamples) ELSE pushed

\* frameTimes.push(frameTime); if (length > maxSamples) frameTimes.shift()
PushSample(window, frameTime) ==
    LET pushed == Append(window, frameTime)
    IN IF Len(pushed) > maxSamples THEN Tail(pushed) ELSE pushed

\* avgFrameTime > targetFrameTime * 1.5, with avgFrameTime = sum / length
\* (compared after multiplying both sides by 2 * length).
AvgAboveSlow(window) == 2 * SeqSum(window) > 3 * targetFrameTime * Len(window)

\* avgFrameTime < targetFrameTime * 0.5
AvgBelowFast(window) == 2 * SeqSum(window) < targetFrameTime * Len(window)

\* A plausible slip: the clamps of the two branches are swapped away (no
\* lower clamp when shrinking, no upper clamp when growing).
AdaptedSettingsUnclamped(window, settings) ==
    IF AvgAboveSlow(window)
    THEN [settings EXCEPT !.asciiWidth  = (settings.asciiWidth * 8) \div 10,
                          !.asciiHeight = (settings.asciiHeight * 8) \div 10]
    ELSE IF AvgBelowFast(window)
    THEN [settings EXCEPT !.asciiWidth  = (settings.asciiWidth * 11) \div 10,
                          !.asciiHeight = (settings.asciiHeight * 11) \div 10]
    ELSE settings

\* A plausible slip: the shrink threshold is 2 x target instead of 1.5 x.
AdaptedSettingsLateShrink(window, settings) ==
    IF SeqSum(window) > 2 * targetFrameTime * Len(window)
    THEN [settings EXCEPT !.asciiWidth  = Max(60, (settings.asciiWidth * 8) \div 10),
                          !.asciiHeight = Max(20, (settings.asciiHeight * 8) \div 10)]
    ELSE IF AvgBelowFast(window)
    THEN [settings EXCEPT !.asciiWidth  = Min(200, (settings.asciiWidth * 11) \div 10),
                          !.asciiHeight = Min(80, (settings.asciiHeight * 11) \div 10)]
    ELSE settings

\* The settings adaptQuality returns for the (already updated) window: a copy
\* of settings, with Math.floor(w * 0.8) / Math.floor(w * 1.1) clamped.
AdaptedSettings(window, settings) ==
    IF AvgAboveSlow(window)
    THEN [settings EXCEPT !.asciiWidth  = Max(60, (settings.asciiWidth * 8) \div 10),
                          !.asciiHeight = Max(20, (settings.asciiHeight * 8) \div 10)]
    ELSE IF AvgBelowFast(window)
    THEN [settings EXCEPT !.asciiWidth  = Min(200, (settings.asciiWidth * 11) \div 10),
                          !.asciiHeight = Min(80, (settings.asciiHeight * 11) \div 10)]
    ELSE settings

\* The controller as constructed: an empty window.
QualityIdle ==
    /\ frameTimes = <<>>
    /\ qcSettings = NoSettings
    /\ qcAdapted = NoSettings
    /\ qcCalls = 0
    /\ qcShifts = 0
    /\ qcFed = <<>>

QualityInputs ==
    /\ frameTimes = <<>>
    /\ qcSettings \in SettingsChoices
    /\ qcAdapted = NoSettings
    /\ qcCalls = 0
    /\ qcShifts = 0
    /\ qcFed = <<>>

\* The latencies fed to the controller around a release of the source.
ResetLatencies == {10, 60}

\* adaptedSettings = adaptQuality(frameTime, settings)
AdaptQuality(frameTime) ==
    /\ qcCalls < MaxAdaptCalls
    /\ LET shift == IF frameTimes # <<>> /\ frameTimes[Len(frameTimes)] # frameTime
                    THEN 1 ELSE 0
       IN /\ qcShifts + shift <= MaxShifts
          /\ qcShifts' = qcShifts + shift
    /\ frameTimes' = PushSample(frameTimes, frameTime)
    /\ qcFed' = Append(qcFed, frameTime)
    /\ qcAdapted' = AdaptedSettings(frameTimes', qcSettings)
    /\ qcCalls' = qcCalls + 1
    /\ UNCHANGED qcSettings

----------------------------------------------------------------------------
(* Frame Cache and Frame Sampler: VideoProcessor.extractFrame,              *)
(* extractFrameWithRetry, extractFrameInternal                              *)

\* this.cacheSize
cacheSize == 10

\* Time units per centisecond: a time is a whole number of quarter centiseconds.
TimeScale == 4

\* Bounds: the duration of the source in centiseconds, the number of source
\* faults (stalls, seeks that never complete) in one behaviour, the number of
\* requests that leave the forward path, and the number of fresh times
\* requested when the sampler is studied on its own.
SrcDuration == 11
MaxFaults == 1
MaxOffPath == 1
MaxOverlap == 2
MaxSamplerTimes == 2

\* The components that call extractFrame and may do so concurrently: the live
\* driver (ASCIIRenderer.renderRealtime, caller 1) and the preprocessor
\* (VideoPreprocessor.startPreprocessing, caller 2).
Callers == {1, 2}

NoVideo == 0

\* The first source a load produces.
LoadedVideo == 1

\* The elements document.createElement('video') can produce: each load makes a
\* new one.
Sources == LoadedVideo .. (LoadedVideo + MaxFaults + 1)

\* The element of the next load: a new one, told apart from every element an
\* attempt or a cached buffer still refers to (elements nothing refers to any
\* more are interchangeable, so the least free one stands for them).
FreshSource ==
    LET used == {cl.src : cl \in closures}
                  \cup {frameCache[i].value.src : i \in 1 .. Len(frameCache)}
    IN CHOOSE s \in Sources : s \notin used /\ \A r \in Sources : r \notin used => s <= r

\* Output resolutions (width, height) the callers request.
Resolutions == {<<2, 2>>, <<3, 1>>}

\* extractFrameWithRetry(time, width, height, maxRetries = 3, isMobile = false)
DefaultMaxRetries == 3

DefaultIsMobile == FALSE

\* Number.prototype.toFixed(2) of a time: sign and rounded centiseconds (a
\* negative time that rounds to zero prints as "-0.00").
ToFixed2(time) ==
    [neg |-> time < 0, cs |-> (Abs(time) + TimeScale \div 2) \div TimeScale]

\* A plausible slip: the key leaves the resolution out.
CacheKeyTimeOnly(time, width, height) == <<ToFixed2(time), 0, 0>>

\* cacheKey = `${time.toFixed(2)}_${width}_${height}`
CacheKey(time, width, height) == <<ToFixed2(time), width, height>>

CacheKeys(cache) == [i \in 1 .. Len(cache) |-> cache[i].key]

\* Map.prototype.has
CacheHas(cache, key) == \E i \in 1 .. Len(cache) : cache[i].key = key

\* Map.prototype.get (for a key the map has)
CacheGet(cache, key) == cache[CHOOSE i \in 1 .. Len(cache) : cache[i].key = key].value

\* Map.prototype.set: an existing key keeps its position and takes the new
\* value, a new key is appended.
CacheSet(cache, key, value) ==
    IF CacheHas(cache, key)
    THEN [i \in 1 .. Len(cache) |->
            IF cache[i].key = key THEN [key |-> key, value |-> value] ELSE cache[i]]
    ELSE Append(cache, [key |-> key, value |-> value])

\* A least-recently-used cache: a hit moves the entry to the newest position.
CacheAfterHitLRU(cache, key) ==
    LET i == CHOOSE j \in 1 .. Len(cache) : cache[j].key = key
    IN Append(SubSeq(cache, 1, i - 1) \o SubSeq(cache, i + 1, Len(cache)), cache[i])

\* if (frameCache.has(cacheKey)) return frameCache.get(cacheKey): the map is
\* read, never written, on a hit.
CacheAfterHit(cache, key) == cache

\* A plausible slip: the test is size > cacheSize.
EvictLate(cache) ==
    IF Len(cache) > cacheSize THEN Tail(cache) ELSE cache

\* if (frameCache.size >= cacheSize) frameCache.delete(frameCache.keys().next().value)
Evict(cache) ==
    IF Len(cache) >= cacheSize THEN Tail(cache) ELSE cache

\* const firstKey = this.frameCache.keys().next().value, for a cache at capacity
EvictedKeys(cache) ==
    IF Len(cache) >= cacheSize THEN <<Head(cache).key>> ELSE <<>>

\* const actualMaxRetries = isMobile ? Math.max(maxRetries, 5) : maxRetries
ActualMaxRetries(maxRetries, mobile) ==
    IF mobile THEN Max(maxRetries, 5) ELSE maxRetries

\* const baseDelay = isMobile ? 1000 : 500; delay = baseDelay * Math.pow(2, attempt - 1)
RetryDelay(attempt, mobile) == (IF mobile THEN 1000 ELSE 500) * 2 ^ (attempt - 1)

\* const additionalWait = isMobile ? 2000 : 1000
AdditionalWait(mobile) == IF mobile THEN 2000 ELSE 1000

\* The ImageData getImageData(0, 0, width, height) reads back: width x height
\* samples of the frame the source presents (source src, position t).
Buffer(src, t, width, height) == [src |-> src, t |-> t, width |-> width, height |-> height]

NoBuffer == Buffer(NoVideo, 0, 0, 0)

\* The pixels of a sampled buffer.
BufferImage(b) == ImageData(b.width, b.height, IF b.t % 2 = 0 THEN "ramp" ELSE "white")

\* A call record before any call.  evicted holds the key the call deleted from
\* the cache before sampling, if it deleted one.  lost records that this.video was null at
\* some moment of the request (set null under it, or found null by it);
\* resumed that a sampling attempt went past the check of this.video after
\* that.
NoCall ==
    [pc |-> "idle", time |-> 0, width |-> 0, height |-> 0, maxRetries |-> 0,
     mobile |-> FALSE, attempt |-> 0, waits |-> <<>>, extraWaits |-> <<>>,
     lastError |-> "none", originalTime |-> 0, result |-> NoBuffer,
     lost |-> FALSE, resumed |-> FALSE, evicted |-> <<>>]

\* A caller that is not inside extractFrame.
Resting(c) == call[c].pc \in {"idle", "returned", "failed"}

\* A caller whose extractFrame promise has settled and whose continuation has
\* not run yet. Continuations are microtasks: they run before the next timer
\* or event, so nothing else happens while one is due.
Due(c) == call[c].pc \in {"returned", "failed"}

NoneDue == \A c \in Callers : ~Due(c)

\* The resolutions caller c requests: the live driver (caller 1) samples at its
\* adapted resolution, the other callers at either.
ResolutionsOf(c) == IF c = 1 THEN {<<2, 2>>} ELSE Resolutions

\* The closure of one sampling attempt (the promise executor of
\* extractFrameInternal): its resolved flag, originalTime, and what can still
\* call it: the seeked and error listeners ({once: true}, never removed by the
\* code) and the deadline timer (cleared by cleanup()).  c is the caller
\* awaiting its promise, 0 once the promise is settled: resolve and reject
\* of a settled promise do nothing.  by and settles record which handler
\* settled the attempt and how many handler bodies ran cleanup() and
\* resolve / reject.  detached: the element the listeners are on is no longer
\* this.video (cleanup() released it); the events of the element loaded next
\* do not reach them.  src is the element the closure holds in its local
\* video, cursor the position that element was left at when it was released.
NewClosure(c, rec, cursor) ==
    [c |-> c, time |-> rec.time, width |-> rec.width, height |-> rec.height,
     originalTime |-> cursor, resolved |-> FALSE,
     onSeeked |-> TRUE, onError |-> TRUE, timer |-> TRUE, detached |-> FALSE,
     src |-> video, cursor |-> 0,
     by |-> "none", settles |-> 0]

\* A closure nothing can call any more is gone.
Registered(cl) == cl.timer \/ (~cl.detached /\ (cl.onSeeked \/ cl.onError))

\* A plausible slip: a handler runs its body without testing the flag.
UnsettledOrStale(cl) == TRUE

\* if (resolved) return / if (!resolved): a handler acts on its attempt only
\* while the attempt is not settled.
Unsettled(cl) == ~cl.resolved

\* resolved = true; cleanup() clears the timer; resolve / reject.
SettledBy(cl, how) ==
    [cl EXCEPT !.resolved = TRUE, !.timer = FALSE, !.c = 0,
               !.by = IF @ = "none" THEN how ELSE @,
               !.settles = Min(2, @ + 1)]

\* The catch block of extractFrameWithRetry for the error err thrown by attempt
\* rec.attempt: wait before the next attempt, or leave the loop and throw.
Caught(rec, err) ==
    IF rec.attempt < ActualMaxRetries(rec.maxRetries, rec.mobile)
    THEN [rec EXCEPT !.pc = "backoff", !.lastError = err,
                     !.waits = Append(@, RetryDelay(rec.attempt, rec.mobile))]
    ELSE [rec EXCEPT !.pc = "failed", !.lastError = err]

\* extractFrameInternal from the check of the time on (lines 328-441): throw for
\* a time outside [0, duration], else register the listeners and seek.
AfterReadiness(c, rec) ==
    IF rec.time < 0 \/ rec.time > duration
    THEN /\ call' = [call EXCEPT ![c] = Caught(rec, "InvalidTime")]
         /\ UNCHANGED <<videoTime, seeking, closures>>
    ELSE IF rec.mobile /\ readyState < 3
    THEN /\ call' = [call EXCEPT ![c] = [rec EXCEPT !.pc = "mobileWait"]]
         /\ UNCHANGED <<videoTime, seeking, closures>>
    ELSE /\ call' = [call EXCEPT ![c] = [rec EXCEPT !.pc = "seeking",
                                                   !.originalTime = videoTime]]
         /\ closures' = closures \cup {NewClosure(c, rec, videoTime)}
         /\ videoTime' = rec.time
         /\ seeking' = TRUE

\* One attempt of extractFrameWithRetry: extractFrameInternal up to its first
\* await (or its throw, caught by the retry loop).
StartAttempt(c, rec0) ==
    LET rec == [rec0 EXCEPT !.attempt = @ + 1,
                            !.resumed = @ \/ (rec0.lost /\ video # NoVideo),
                            !.lost = @ \/ video = NoVideo]
    IN IF video = NoVideo
       THEN /\ call' = [call EXCEPT ![c] = Caught(rec, "NotLoaded")]
            /\ UNCHANGED <<readyState, videoTime, seeking, closures>>
       ELSE IF readyState < 1
       THEN /\ call' = [call EXCEPT ![c] = Caught(rec, "NotReady")]
            /\ UNCHANGED <<readyState, videoTime, seeking, closures>>
       ELSE IF readyState < 2
       THEN /\ call' = [call EXCEPT ![c] = [rec EXCEPT !.pc = "poll2"]]
            /\ UNCHANGED <<readyState, videoTime, seeking, closures>>
       ELSE IF readyState < 4
       THEN \* this.video.load(), then poll
            /\ call' = [call EXCEPT ![c] = [rec EXCEPT !.pc = "poll4"]]
            /\ readyState' = 0
            /\ UNCHANGED <<videoTime, seeking, closures>>
       ELSE /\ AfterReadiness(c, rec)
            /\ UNCHANGED readyState

\* The run of non-overlapping successful insertions, once a call misses the
\* cache: a call that starts while another is in flight ends the run, and so
\* does one that starts after the run has reached cacheSize + 1 insertions.
Broken == <<"broken">>

RunAtStart(c) ==
    IF (\E d \in Callers \ {c} : ~Resting(d)) \/ Len(run) > cacheSize
    THEN Broken ELSE run

\* The time a caller playing forward requests next: the next centisecond not
\* requested so far.
FreshTimes == IF nextTime <= SrcDuration THEN {nextTime * TimeScale} ELSE {}

\* The other times a caller may request: the first and the latest centisecond
\* requested, the end of the source, and times just outside [0, duration].
OtherTimes == {0, (nextTime - 1) * TimeScale, duration, -1, duration + 1}

RequestTimes == FreshTimes \cup OtherTimes

\* A request on the forward path: the fresh time at the driver's resolution,
\* made on a loaded source while no other call is in flight.
IsOffPath(c, time, width, height) ==
    ~( /\ time \in FreshTimes
       /\ <<width, height>> = <<2, 2>>
       /\ video # NoVideo
       /\ \A d \in Callers \ {c} : Resting(d) )

\* extractFrame(time, width, height) up to its first await.
ExtractFrame(c, time, width, height) ==
    /\ NoneDue
    /\ Resting(c)
    /\ LET key == CacheKey(time, width, height)
           rec == [NoCall EXCEPT !.time = time, !.width = width, !.height = height,
                                 !.maxRetries = DefaultMaxRetries,
                                 !.mobile = DefaultIsMobile]
       IN IF CacheHas(frameCache, key)
          THEN /\ call' = [call EXCEPT ![c] = [rec EXCEPT !.pc = "returned",
                                                         !.result = CacheGet(frameCache, key)]]
               /\ frameCache' = CacheAfterHit(frameCache, key)
               /\ UNCHANGED <<readyState, videoTime, seeking, closures, run>>
          ELSE /\ frameCache' = Evict(frameCache)
               /\ StartAttempt(c, [rec EXCEPT !.evicted = EvictedKeys(frameCache)])
               /\ run' = IF call'[c].pc = "failed" THEN Broken ELSE RunAtStart(c)
    /\ nextTime' = IF time \in FreshTimes THEN nextTime + 1 ELSE nextTime
    /\ IF IsOffPath(c, time, width, height)
       THEN offPath > 0 /\ offPath' = offPath - 1
       ELSE offPath' = offPath
    /\ UNCHANGED <<isMobile, video, duration, shownTime, faults>>

\* The wait between two attempts is over (lines 245-255): next attempt, the
\* additional wait for a stalled source, or break when the source is gone.
BackoffDone(c) ==
    /\ NoneDue
    /\ call[c].pc = "backoff"
    /\ IF video = NoVideo
       THEN /\ call' = [call EXCEPT ![c] = [@ EXCEPT !.pc = "failed", !.lost = TRUE]]
            /\ UNCHANGED <<readyState, videoTime, seeking, closures>>
       ELSE IF readyState < 2
       THEN /\ call' = [call EXCEPT ![c] =
                          [@ EXCEPT !.pc = "stallWait",
                                    !.extraWaits = Append(@, AdditionalWait(call[c].mobile))]]
            /\ UNCHANGED <<readyState, videoTime, seeking, closures>>
       ELSE StartAttempt(c, call[c])
    /\ run' = IF call'[c].pc = "failed" THEN Broken ELSE run
    /\ UNCHANGED <<isMobile, video, duration, shownTime, frameCache, nextTime, faults, offPath>>

\* The additional wait is over: next attempt.
StallWaitDone(c) ==
    /\ NoneDue
    /\ call[c].pc = "stallWait"
    /\ StartAttempt(c, call[c])
    /\ run' = IF call'[c].pc = "failed" THEN Broken ELSE run
    /\ UNCHANGED <<isMobile, video, duration, shownTime, frameCache, nextTime, faults, offPath>>

\* A poll of the readiness loops wakes and finds the source ready enough
\* (lines 288-298 and 310-319).
PollReady(c) ==
    /\ NoneDue
    /\ call[c].pc \in {"poll2", "poll4"}
    /\ video # NoVideo
    /\ IF call[c].pc = "poll2" THEN readyState >= 2 ELSE readyState >= 4
    /\ IF call[c].pc = "poll2" /\ readyState < 4
       THEN /\ call' = [call EXCEPT ![c] = [@ EXCEPT !.pc = "poll4"]]
            /\ readyState' = 0
            /\ UNCHANGED <<videoTime, seeking, closures>>
       ELSE /\ AfterReadiness(c, call[c])
            /\ UNCHANGED readyState
    /\ run' = IF call'[c].pc = "failed" THEN Broken ELSE run
    /\ UNCHANGED <<isMobile, video, duration, shownTime, frameCache, nextTime, faults, offPath>>

\* The readiness loop reaches its ceiling: the first loop throws, the second
\* goes on with the data there is.
PollCeiling(c) ==
    /\ NoneDue
    /\ call[c].pc \in {"poll2", "poll4"}
    /\ video # NoVideo
    /\ IF call[c].pc = "poll2" THEN readyState < 2 ELSE readyState < 4
    /\ IF call[c].pc = "poll2"
       THEN /\ call' = [call EXCEPT ![c] = Caught(@, "NotReady")]
            /\ UNCHANGED <<videoTime, seeking, closures>>
       ELSE AfterReadiness(c, call[c])
    /\ run' = IF call'[c].pc = "failed" THEN Broken ELSE run
    /\ UNCHANGED <<isMobile, video, duration, readyState, shownTime, frameCache, nextTime,
                   faults, offPath>>

\* A plausible slip: the cursor is written back from a drift of 0.1 s on.
RestoredTimeAtThreshold(cursor, originalTime) ==
    IF Abs(cursor - originalTime) >= 10 * TimeScale THEN originalTime ELSE cursor

\* cleanup() of one attempt: write the cursor back when it drifted by more than
\* 0.1 s from the position before the seek (a new seek of the source).
RestoredTime(cursor, originalTime) ==
    IF Abs(cursor - originalTime) > 10 * TimeScale THEN originalTime ELSE cursor

\* The listener that runs next among ls: those of unsettled attempts in the
\* order of their callers, then the others.
NextListener(ls) ==
    IF \E x \in ls : x.c # 0
    THEN CHOOSE x \in ls : x.c # 0 /\ \A y \in ls : y.c # 0 => x.c <= y.c
    ELSE CHOOSE x \in ls : TRUE

\* The seeked event runs the onSeeked listeners todo and removes them: each
\* returns at once when its attempt is settled, else it draws the presented
\* frame, reads it back, runs cleanup() and resolves; the awaiting
\* extractFrame call then stores the buffer in the cache.
RECURSIVE Settle(_, _, _, _, _, _)
Settle(todo, done, calls, cache, cursor, shown) ==
    IF todo = {}
    THEN [closures |-> {cl \in done : Registered(cl)}, calls |-> calls,
          cache |-> cache, cursor |-> cursor]
    ELSE LET cl    == NextListener(todo)
             fired == [cl EXCEPT !.onSeeked = FALSE]
             buf   == Buffer(cl.src, shown, cl.width, cl.height)
         IN IF ~Unsettled(cl)
            THEN Settle(todo \ {cl}, done \cup {fired}, calls, cache, cursor, shown)
            ELSE Settle(todo \ {cl}, done \cup {SettledBy(fired, "seeked")},
                        IF cl.c = 0 THEN calls
                        ELSE [calls EXCEPT ![cl.c] = [@ EXCEPT !.pc = "returned",
                                                               !.result = buf]],
                        IF cl.c = 0 THEN cache
                        ELSE CacheSet(cache, CacheKey(cl.time, cl.width, cl.height), buf),
                        RestoredTime(cursor, cl.originalTime), shown)

\* The source completes its seek and fires seeked.
Seeked ==
    /\ NoneDue
    /\ video # NoVideo
    /\ seeking
    /\ shownTime' = videoTime
    /\ LET ls  == {cl \in closures : cl.onSeeked /\ ~cl.detached}
           out == Settle(ls, closures \ ls, call, frameCache, videoTime, videoTime)
           awaited == {cl \in ls : cl.c # 0}
       IN /\ call' = out.calls
          /\ frameCache' = out.cache
          /\ videoTime' = out.cursor
          /\ closures' = out.closures
          /\ seeking' = (out.cursor # videoTime)
          /\ run' = IF run = Broken \/ awaited = {} THEN run
                    ELSE LET cl == CHOOSE x \in awaited : TRUE
                             k == CacheKey(cl.time, cl.width, cl.height)
                         IN IF Len(run) > cacheSize THEN Broken ELSE Append(run, k)
    /\ UNCHANGED <<isMobile, video, duration, readyState, nextTime, faults, offPath>>

\* The deadline timer of caller c's attempt fires before the seek completes:
\* if the attempt is not settled, cleanup() and reject, caught by the retry
\* loop.  On a loaded source this is a fault of the source; after cleanup()
\* released the source it is what ends the attempt.
SeekTimeout(c) ==
    /\ NoneDue
    /\ faults < MaxFaults \/ video = NoVideo
    /\ \E cl \in closures :
          /\ cl.c = c
          /\ cl.timer
          /\ LET fired == [cl EXCEPT !.timer = FALSE]
             IN IF ~Unsettled(cl)
                THEN /\ closures' = {x \in (closures \ {cl}) \cup {fired} : Registered(x)}
                     /\ UNCHANGED <<call, videoTime, seeking>>
                ELSE /\ closures' = {x \in (closures \ {cl})
                                            \cup {SettledBy(fired, "timeout")} : Registered(x)}
                     /\ call' = [call EXCEPT ![c] = Caught(@, "Timeout")]
                     /\ videoTime' = IF cl.detached THEN videoTime
                                     ELSE RestoredTime(videoTime, cl.originalTime)
                     /\ seeking' = (seeking \/ videoTime' # videoTime)
    /\ faults' = IF video = NoVideo THEN faults ELSE faults + 1
    /\ run' = IF call'[c].pc = "failed" THEN Broken ELSE run
    /\ UNCHANGED <<isMobile, video, duration, readyState, shownTime, frameCache, nextTime, offPath>>

\* The error event runs the onError listeners todo and removes them: each
\* returns at once when its attempt is settled, else it runs cleanup() and
\* rejects, caught by the retry loop of the awaiting call.
RECURSIVE Fail(_, _, _, _)
Fail(todo, done, calls, cursor) ==
    IF todo = {}
    THEN [closures |-> {cl \in done : Registered(cl)}, calls |-> calls, cursor |-> cursor]
    ELSE LET cl    == NextListener(todo)
             fired == [cl EXCEPT !.onError = FALSE]
         IN IF ~Unsettled(cl)
            THEN Fail(todo \ {cl}, done \cup {fired}, calls, cursor)
            ELSE Fail(todo \ {cl}, done \cup {SettledBy(fired, "error")},
                      IF cl.c = 0 THEN calls
                      ELSE [calls EXCEPT ![cl.c] = Caught(@, "SourceError")],
                      RestoredTime(cursor, cl.originalTime))

\* The source fires its error event (a decode or network error).
SourceError ==
    /\ NoneDue
    /\ video # NoVideo
    /\ faults < MaxFaults
    /\ faults' = faults + 1
    /\ LET ls  == {cl \in closures : cl.onError /\ ~cl.detached}
           out == Fail(ls, closures \ ls, call, videoTime)
       IN /\ call' = out.calls
          /\ closures' = out.closures
          /\ videoTime' = out.cursor
          /\ seeking' = (seeking \/ out.cursor # videoTime)
          /\ run' = IF \E c \in Callers : out.calls[c].pc = "failed" THEN Broken ELSE run
    /\ UNCHANGED <<isMobile, video, duration, readyState, shownTime, frameCache, nextTime,
                   offPath>>

\* An element that cleanup() released completes the seek it was doing and
\* fires seeked: its onSeeked listeners are still on it.  Each unsettled one
\* draws the element it holds, resolves, and the awaiting extractFrame call
\* stores the buffer in this.frameCache.
RECURSIVE SettleReleased(_, _, _, _)
SettleReleased(todo, done, calls, cache) ==
    IF todo = {}
    THEN [closures |-> {cl \in done : Registered(cl)}, calls |-> calls, cache |-> cache]
    ELSE LET cl    == NextListener(todo)
             fired == [cl EXCEPT !.onSeeked = FALSE]
             buf   == Buffer(cl.src, cl.cursor, cl.width, cl.height)
         IN IF ~Unsettled(cl)
            THEN SettleReleased(todo \ {cl}, done \cup {fired}, calls, cache)
            ELSE SettleReleased(todo \ {cl}, done \cup {SettledBy(fired, "seeked")},
                                IF cl.c = 0 THEN calls
                                ELSE [calls EXCEPT ![cl.c] = [@ EXCEPT !.pc = "returned",
                                                                       !.result = buf]],
                                IF cl.c = 0 THEN cache
                                ELSE CacheSet(cache, CacheKey(cl.time, cl.width, cl.height),
                                              buf))

SeekedReleased ==
    /\ NoneDue
    /\ \E s \in Sources :
          LET ls == {cl \in closures : cl.detached /\ cl.onSeeked /\ cl.src = s}
              out == SettleReleased(ls, closures \ ls, call, frameCache)
          IN /\ ls # {}
             /\ call' = out.calls
             /\ frameCache' = out.cache
             /\ closures' = out.closures
    /\ UNCHANGED <<isMobile, video, duration, readyState, videoTime, shownTime, seeking,
                   nextTime, faults, offPath, run>>

\* The continuation of the caller runs: it takes the buffer (or the error) the
\* promise settled with.
Return(c) ==
    /\ Due(c)
    /\ call' = [call EXCEPT ![c] = NoCall]
    /\ UNCHANGED <<isMobile, video, duration, readyState, videoTime, shownTime, seeking,
                   closures, frameCache, nextTime, faults, offPath, run>>

\* loadVideo after its cleanup(): the promise resolves once the new element
\* has enough data, and this.video, this.duration are set.
LoadVideo ==
    /\ NoneDue
    /\ video = NoVideo
    /\ video' = FreshSource
    /\ duration' = SrcDuration * TimeScale
    /\ readyState' = 4
    /\ videoTime' = 0
    /\ shownTime' = 0
    /\ seeking' = FALSE
    /\ UNCHANGED <<isMobile, closures, frameCache, call, nextTime, faults, offPath, run>>

\* VideoProcessor.cleanup(): the source is released, the cache cleared.  The
\* calls in flight go on.
Released ==
    /\ video' = NoVideo
    /\ duration' = 0
    /\ readyState' = 0
    /\ frameCache' = <<>>
    /\ closures' = {cl \in {IF x.detached THEN x
                              ELSE [x EXCEPT !.detached = TRUE, !.cursor = videoTime] :
                              x \in closures} : Registered(cl)}
    /\ call' = [c \in Callers |-> IF Resting(c) THEN call[c]
                                  ELSE [call[c] EXCEPT !.lost = TRUE]]
    /\ run' = Broken

\* app.clearVideoState when another file is chosen: cleanup() while a source
\* is loaded.
Cleanup ==
    /\ NoneDue
    /\ video # NoVideo
    /\ faults < MaxFaults
    /\ faults' = faults + 1
    /\ Released
    /\ UNCHANGED <<isMobile, videoTime, shownTime, seeking, nextTime, offPath>>

\* The source runs out of buffered data: its readiness regresses.
Stall(level) ==
    /\ NoneDue
    /\ video # NoVideo
    /\ faults < MaxFaults
    /\ level < readyState
    /\ readyState' = level
    /\ faults' = faults + 1
    /\ UNCHANGED <<isMobile, video, duration, videoTime, shownTime, seeking, closures,
                   frameCache, call, nextTime, offPath, run>>

\* The source buffers data again.
Buffered ==
    /\ NoneDue
    /\ video # NoVideo
    /\ readyState < 4
    /\ readyState' = 4
    /\ UNCHANGED <<isMobile, video, duration, videoTime, shownTime, seeking, closures,
                   frameCache, call, nextTime, faults, offPath, run>>

\* The processor as constructed (on a desktop-class device).
CacheIdle ==
    /\ isMobile = FALSE
    /\ video = NoVideo
    /\ duration = 0
    /\ readyState = 0
    /\ videoTime = 0
    /\ shownTime = 0
    /\ seeking = FALSE
    /\ closures = {}
    /\ frameCache = <<>>
    /\ call = [c \in Callers |-> NoCall]
    /\ nextTime = 0
    /\ faults = 0
    /\ offPath = MaxOffPath
    /\ run = <<>>

\* The processor as constructed, on a device of either class.
SamplerInputs ==
    /\ isMobile \in BOOLEAN
    /\ video = NoVideo
    /\ duration = 0
    /\ readyState = 0
    /\ videoTime = 0
    /\ shownTime = 0
    /\ seeking = FALSE
    /\ closures = {}
    /\ frameCache = <<>>
    /\ call = [c \in Callers |-> NoCall]
    /\ nextTime = 0
    /\ faults = 0
    /\ offPath = MaxOffPath
    /\ run = <<>>

\* The processor as constructed, with room for MaxOverlap requests off the
\* forward path.
OverlapInputs ==
    /\ isMobile = FALSE
    /\ video = NoVideo
    /\ duration = 0
    /\ readyState = 0
    /\ videoTime = 0
    /\ shownTime = 0
    /\ seeking = FALSE
    /\ closures = {}
    /\ frameCache = <<>>
    /\ call = [c \in Callers |-> NoCall]
    /\ nextTime = 0
    /\ faults = 0
    /\ offPath = MaxOverlap
    /\ run = <<>>

----------------------------------------------------------------------------
(* Playback Driver, live mode: ASCIIRenderer.startRealtimeProcessing,       *)
(* renderRealtime, pause, stop, driven by the application's buttons.        *)
(*                                                                          *)
(* A tick chain is one renderRealtime invocation together with the timer    *)
(* and the animation-frame request it leaves behind: sampling (awaiting     *)
(* extractFrame), then timer (its setTimeout is pending), then frame (its   *)
(* requestAnimationFrame callback is pending), then sampling again.  The    *)
(* sampler call of a tick is represented here by its outcome (a buffer or   *)
(* an error); what it does to the frame cache is the subject of SpecCache.  *)
(* The container is set once by init() and never cleared by the             *)
(* application, so the !this.container tests are always false.              *)

\* Bounds: tick chains alive at once, renderRealtime runs in all, the clock,
\* frames fed to one recording.
MaxTicks == 2
MaxRuns == 4
MaxClock == 26
MaxRecorded == 2
MaxWallClock == 70

\* The clock advances by one frame period: frameDelay = 1000 / 30 ms.
ClockStep == 13

TickIds == 1 .. MaxTicks

NoHandle == 0

\* A chain with nothing pending.  failed: the chain's last sampling failed
\* while the renderer was playing, and renderRealtime has not run in the chain
\* since.  wrapped: the chain's last renderRealtime found the elapsed time at or
\* past the duration and restarted the position.
NoTick ==
    [stage |-> "free", stale |-> FALSE, time |-> 0, failed |-> FALSE, wrapped |-> FALSE]

\* What the display shows: nothing, a converted frame, or createEmptyFrame.
NoContent == <<"">>
FrameContent(time) == <<"frame", time>>
EmptyFrameContent == <<"empty">>

\* app.getDefaultSettings()
DefaultSettings(mobile) ==
    IF mobile THEN [asciiWidth |-> 60, asciiHeight |-> 20]
    ELSE [asciiWidth |-> 120, asciiHeight |-> 40]

LiveTicks(tk) == {i \in TickIds : tk[i].stage # "free"}

\* The bounds leave room for one more renderRealtime run, in a new chain.
HasRoom == LiveTicks(ticks) # TickIds /\ Len(frameTimes) < MaxRuns

\* The chain a new renderRealtime invocation becomes.
FreeTick == CHOOSE i \in TickIds :
    /\ ticks[i].stage = "free"
    /\ \A j \in TickIds : j < i => ticks[j].stage # "free"

\* cancelAnimationFrame(handle): the callback is dropped if it is still pending.
\* A handle is named after the chain that requested it.
CancelAnimationFrame(tk, handle) ==
    [i \in TickIds |-> IF i = handle /\ tk[i].stage = "frame" THEN NoTick ELSE tk[i]]

\* Bookkeeping at pause() / stop(): every tick that is still pending or in
\* flight when the call returns was left behind by it.
LeftBehind(tk) ==
    [i \in TickIds |-> IF tk[i].stage # "free" THEN [tk[i] EXCEPT !.stale = TRUE]
                                              ELSE tk[i]]

\* A driver that never tests the source handle.
SourceGoneNever(v) == FALSE

\* if (!this.videoProcessor.video): the tick finds the source handle gone.
SourceGone(v) == v = NoVideo

\* A driver that never wraps its position.
PositionUnwrapped(elapsed, dur) == elapsed

\* this.currentTime = elapsed / 1000; if (this.currentTime >= this.duration)
\* this.currentTime = 0: the position a tick samples at.
PositionAt(elapsed, dur) == IF elapsed >= dur THEN 0 ELSE elapsed

\* renderRealtime() up to its await, for chain i, entered with the given field
\* values: guard, currentTime from the clock, wrap at the end of the source,
\* adaptQuality with the time spent so far (none), source check, extractFrame.
RenderRealtime(i, playing, realtime, start, dur, audio, tk) ==
    LET elapsed == now - start
        wrapped == elapsed >= dur
    IN IF ~playing \/ ~realtime
       THEN /\ ticks' = [tk EXCEPT ![i] = NoTick]
            /\ isPlaying' = playing
            /\ isRealtime' = realtime
            /\ startTime' = start
            /\ audioPlaying' = audio
            /\ UNCHANGED <<currentTime, frameTimes, qcFed, container, animationId, stray,
                           stoppedOnLoss>>
       ELSE /\ frameTimes' = PushSample(frameTimes, 0)
            /\ qcFed' = Append(qcFed, 0)
            /\ stoppedOnLoss' = SourceGone(video)
            /\ startTime' = IF wrapped THEN now ELSE start
            /\ stray' = IF tk[i].stale THEN stray \cup {"tick"} ELSE stray
            /\ IF SourceGone(video)
               THEN \* this.stop(); return
                    /\ isPlaying' = FALSE
                    /\ isRealtime' = FALSE
                    /\ ticks' = LeftBehind(CancelAnimationFrame(
                                    [tk EXCEPT ![i] = NoTick], animationId))
                    /\ animationId' = NoHandle
                    /\ audioPlaying' = FALSE
                    /\ currentTime' = 0
                    /\ container' = NoContent
               ELSE /\ isPlaying' = TRUE
                    /\ isRealtime' = TRUE
                    /\ currentTime' = PositionAt(elapsed, dur)
                    /\ audioPlaying' = (audio \/ wrapped)
                    /\ ticks' = [tk EXCEPT ![i].stage = "sampling",
                                           ![i].time = currentTime',
                                           ![i].failed = FALSE,
                                           ![i].wrapped = wrapped]
                    /\ UNCHANGED <<container, animationId>>

\* startRealtimeProcessing(settings), past its readiness checks.
StartRealtimeProcessing ==
    /\ rSettings' = DefaultSettings(isMobile)
    /\ rendDuration' = duration
    /\ RenderRealtime(FreeTick, TRUE, TRUE, now, duration, TRUE, ticks)

\* The play button while the renderer is not playing: app.togglePlay, app.play,
\* startRealtimeProcessing (which throws unless the source is loaded and has
\* enough data).
Play ==
    /\ ~isPlaying
    /\ video # NoVideo
    /\ readyState = 4
    /\ HasRoom
    /\ StartRealtimeProcessing
    /\ UNCHANGED <<now, isRecording, recordedFrames>>

\* The pause button, or the play button while the renderer is playing:
\* app.pause, ASCIIRenderer.pause.
Pause ==
    /\ isPlaying' = FALSE
    /\ ticks' = LeftBehind(CancelAnimationFrame(ticks, animationId))
    /\ animationId' = NoHandle
    /\ audioPlaying' = FALSE
    /\ UNCHANGED <<now, container, isRealtime, startTime, currentTime, rendDuration,
                   rSettings, isRecording, recordedFrames, stray, frameTimes, qcFed, stoppedOnLoss>>

\* The stop button: app.stop, ASCIIRenderer.stop, and the recording is stopped.
Stop ==
    /\ isPlaying' = FALSE
    /\ isRealtime' = FALSE
    /\ ticks' = LeftBehind(CancelAnimationFrame(ticks, animationId))
    /\ animationId' = NoHandle
    /\ audioPlaying' = FALSE
    /\ currentTime' = 0
    /\ container' = NoContent
    /\ isRecording' = FALSE
    /\ UNCHANGED <<now, startTime, rendDuration, rSettings, recordedFrames, stray,
                   frameTimes, qcFed, stoppedOnLoss>>

\* The record button: app.startRecording, VideoRecorder.startRecording, and
\* playback is started if the renderer is not playing.
StartRecording ==
    /\ video # NoVideo
    /\ ~isRecording
    /\ isRecording' = TRUE
    /\ recordedFrames' = 0
    /\ (~isPlaying /\ readyState = 4) => HasRoom
    /\ IF ~isPlaying /\ readyState = 4
       THEN StartRealtimeProcessing
       ELSE UNCHANGED <<container, isPlaying, isRealtime, animationId, startTime,
                        currentTime, rendDuration, rSettings, audioPlaying, ticks,
                        stray, frameTimes, qcFed, stoppedOnLoss>>
    /\ UNCHANGED now

\* The stop-recording button: app.stopRecording, VideoRecorder.stopRecording.
StopRecording ==
    /\ isRecording
    /\ isRecording' = FALSE
    /\ UNCHANGED <<now, container, isPlaying, isRealtime, animationId, startTime,
                   currentTime, rendDuration, rSettings, audioPlaying,
                   recordedFrames, ticks, stray, frameTimes, qcFed, stoppedOnLoss>>

\* Mutation of Rescheduled: a failed sampling ends the chain.
RescheduledOnSuccess(tick, ok) ==
    IF ok THEN [tick EXCEPT !.stage = "timer", !.failed = FALSE]
    ELSE [tick EXCEPT !.stage = "ended", !.failed = TRUE]

\* The chain after the try / catch around the sampling, when the renderer is
\* playing in live mode: setTimeout for the next tick, on either path.
Rescheduled(tick, ok) == [tick EXCEPT !.stage = "timer", !.failed = ~ok]

\* The await of chain i completes with a buffer (ok) or an error: the rest of
\* renderRealtime runs: convert and display (or the empty frame), feed the
\* recorder, syncAudio, and setTimeout for the next tick if still playing.
SampleDone(i, ok) ==
    /\ ticks[i].stage = "sampling"
    /\ ok => video # NoVideo
    /\ LET records == ok /\ isRecording
           schedules == isPlaying /\ isRealtime
       IN /\ records => recordedFrames < MaxRecorded
          /\ container' = IF ok THEN FrameContent(ticks[i].time) ELSE EmptyFrameContent
          /\ recordedFrames' = IF records THEN recordedFrames + 1 ELSE recordedFrames
          /\ ticks' = [ticks EXCEPT ![i] = IF schedules THEN Rescheduled(@, ok)
                                                        ELSE NoTick]
          /\ stray' = IF ticks[i].stale
                      THEN stray \cup {"display"}
                                 \cup (IF records THEN {"record"} ELSE {})
                                 \cup (IF schedules THEN {"schedule"} ELSE {})
                      ELSE stray
    /\ UNCHANGED <<now, isPlaying, isRealtime, animationId, startTime, currentTime,
                   rendDuration, rSettings, audioPlaying, isRecording, frameTimes, qcFed, stoppedOnLoss>>

\* The setTimeout callback of chain i runs: it requests an animation frame if
\* the renderer is playing in live mode.
TimerFired(i) ==
    /\ ticks[i].stage = "timer"
    /\ IF isPlaying /\ isRealtime
       THEN /\ animationId' = i
            /\ ticks' = [ticks EXCEPT ![i].stage = "frame"]
            /\ stray' = IF ticks[i].stale THEN stray \cup {"schedule"} ELSE stray
       ELSE /\ ticks' = [ticks EXCEPT ![i] = NoTick]
            /\ UNCHANGED <<animationId, stray>>
    /\ UNCHANGED <<now, container, isPlaying, isRealtime, startTime, currentTime,
                   rendDuration, rSettings, audioPlaying, isRecording,
                   recordedFrames, frameTimes, qcFed, stoppedOnLoss>>

\* The animation-frame callback of chain i runs renderRealtime().
AnimationFrame(i) ==
    /\ ticks[i].stage = "frame"
    /\ Len(frameTimes) < MaxRuns
    /\ RenderRealtime(i, isPlaying, isRealtime, startTime, rendDuration,
                      audioPlaying, ticks)
    /\ UNCHANGED <<now, rendDuration, rSettings, isRecording, recordedFrames>>

\* One frame period passes.
Elapse ==
    /\ now + ClockStep <= MaxClock
    /\ now' = now + ClockStep
    /\ UNCHANGED <<container, isPlaying, isRealtime, animationId, startTime,
                   currentTime, rendDuration, rSettings, audioPlaying, isRecording,
                   recordedFrames, ticks, stray, frameTimes, qcFed, stoppedOnLoss>>

\* A long time passes between two events: the tab is in the background, or the
\* event loop is busy.
ElapseBy(d) ==
    /\ now + d <= MaxWallClock
    /\ now' = now + d
    /\ UNCHANGED <<container, isPlaying, isRealtime, animationId, startTime,
                   currentTime, rendDuration, rSettings, audioPlaying, isRecording,
                   recordedFrames, ticks, stray, frameTimes, qcFed, stoppedOnLoss>>

\* The renderer and the recorder as constructed and initialised.
PlayerIdle ==
    /\ now = 0
    /\ container = NoContent
    /\ isPlaying = FALSE
    /\ isRealtime = FALSE
    /\ animationId = NoHandle
    /\ startTime = 0
    /\ currentTime = 0
    /\ rendDuration = 0
    /\ rSettings = NoSettings
    /\ audioPlaying = FALSE
    /\ isRecording = FALSE
    /\ recordedFrames = 0
    /\ ticks = [i \in TickIds |-> NoTick]
    /\ stray = {}
    /\ stoppedOnLoss = FALSE

----------------------------------------------------------------------------
(* Playback Driver, precomputed mode: ASCIIRenderer.startPreprocessedPlayback, *)
(* render, pause, stop, getPlaybackInfo.  In live mode frames is empty and     *)
(* currentFrame is 0 throughout.                                               *)

\* Bounds: frames in the list, playAudio() calls, and the clock.
MaxFrames == 3
MaxStarts == 3
MaxPlayClock == 240
MaxStaleRenders == 1
MaxSeekClock == 120

\* performance.now() counts in units of 1 / (100 * TimeScale) s.
UnitsPerSecond == 100 * TimeScale

\* settings.fps
FpsChoices == {10, 20}

\* this.frameDelay = 1000 / this.fps
FrameDelay(f) == UnitsPerSecond \div f

\* Time between two runs of the event loop: animation frames in time, or late.
Delays == {20, 40, 100}

\* The handle requestAnimationFrame(() => this.render()) returns.
RenderHandle == 1

\* frames[k], for the list of n preprocessed frames.
StoredFrame(k) == <<"stored", k>>
StoredFrames(n) == [k \in 1 .. n |-> StoredFrame(k - 1)]

\* Mutation of AtEnd: the end is recognised one frame late.
AtEndLate(expectedFrame, n) == expectedFrame > n

\* expectedFrame >= this.frames.length
AtEnd(expectedFrame, n) == expectedFrame >= n

\* render(), entered with the given field values: show frames[currentFrame];
\* if playing, take the frame the elapsed time calls for, or at the end of the
\* list go back to frame 0, restart the clock and the audio; request the next
\* animation frame.
Render(playing, list, f, cur, start, audio, starts) ==
    LET elapsed == now - start
        expectedFrame == elapsed \div FrameDelay(f)
        wraps == AtEnd(expectedFrame, Len(list))
    IN /\ lastRender' = now
       /\ isPlaying' = playing
       /\ IF list = <<>>
          THEN /\ currentFrame' = cur
               /\ startTime' = start
               /\ audioPlaying' = audio
               /\ audioStarts' = starts
               /\ UNCHANGED <<container, animationId>>
          ELSE /\ container' = IF cur < Len(list) THEN list[cur + 1] ELSE container
               /\ currentFrame' = IF ~playing THEN cur
                                  ELSE IF wraps THEN 0 ELSE expectedFrame
               /\ startTime' = IF playing /\ wraps THEN now ELSE start
               /\ audioPlaying' = (audio \/ (playing /\ wraps))
               /\ audioStarts' = IF playing /\ wraps THEN starts + 1 ELSE starts
               /\ animationId' = IF playing THEN RenderHandle ELSE animationId

\* The play button while the renderer is not playing and the preprocessor has
\* n frames: app.togglePlay, app.play, startPreprocessedPlayback(frames, settings).
StartPreprocessedPlayback(n, f) ==
    /\ ~isPlaying
    /\ audioStarts < MaxStarts
    /\ rSettings' = DefaultSettings(isMobile)
    /\ isRealtime' = FALSE
    /\ frames' = StoredFrames(n)
    /\ fps' = f
    /\ rendDuration' = n * FrameDelay(f)
    /\ currentTime' = 0
    /\ Render(TRUE, StoredFrames(n), f, 0, now, TRUE, audioStarts + 1)
    /\ UNCHANGED <<now, isRecording, recordedFrames, ticks, stray, stoppedOnLoss, staleRenders>>

\* The animation-frame callback runs render().
RenderCallback ==
    /\ animationId = RenderHandle
    /\ audioStarts < MaxStarts
    /\ Render(isPlaying, frames, fps, currentFrame, startTime, audioPlaying, audioStarts)
    /\ UNCHANGED <<now, isRealtime, currentTime, rendDuration, rSettings, isRecording,
                   recordedFrames, ticks, stray, stoppedOnLoss, frames, fps,
                   staleRenders>>

\* The pause button: app.pause, ASCIIRenderer.pause.
PauseFrames ==
    /\ isPlaying' = FALSE
    /\ animationId' = NoHandle
    /\ audioPlaying' = FALSE
    /\ UNCHANGED <<now, container, isRealtime, startTime, currentTime, rendDuration,
                   rSettings, isRecording, recordedFrames, ticks, stray, stoppedOnLoss, framesVars>>

\* The stop button: app.stop, ASCIIRenderer.stop.
StopFrames ==
    /\ isPlaying' = FALSE
    /\ isRealtime' = FALSE
    /\ animationId' = NoHandle
    /\ audioPlaying' = FALSE
    /\ currentFrame' = 0
    /\ currentTime' = 0
    /\ container' = NoContent
    /\ UNCHANGED <<now, startTime, rendDuration, rSettings, isRecording,
                   recordedFrames, ticks, stray, stoppedOnLoss, frames, fps, audioStarts,
                   lastRender, staleRenders>>

\* Time passes until the event loop runs again.
Wait(d) ==
    /\ now + d <= MaxPlayClock
    /\ now' = now + d
    /\ UNCHANGED <<container, isPlaying, isRealtime, animationId, startTime,
                   currentTime, rendDuration, rSettings, audioPlaying, isRecording,
                   recordedFrames, ticks, stray, stoppedOnLoss, framesVars>>

\* The pending callbacks left without a handle when render() requests a frame:
\* the one whose handle the new request overwrites joins them.
StaleAfterRequest(playing) ==
    IF playing /\ animationId = RenderHandle THEN staleRenders + 1 ELSE staleRenders

\* setFrames(frames, fps): a list of n frames is handed to the renderer.
SetFrames(n, f) ==
    /\ frames' = StoredFrames(n)
    /\ fps' = f
    /\ currentFrame' = 0
    /\ isRealtime' = FALSE
    /\ UNCHANGED <<now, container, isPlaying, animationId, startTime, currentTime,
                   rendDuration, rSettings, audioPlaying, isRecording, recordedFrames,
                   ticks, stray, stoppedOnLoss, audioStarts, lastRender, staleRenders>>

\* play(): returns at once when playing or without frames; else frame 0 from now.
PlayFrames ==
    /\ ~isPlaying
    /\ frames # <<>>
    /\ audioStarts < MaxStarts
    /\ StaleAfterRequest(TRUE) <= MaxStaleRenders
    /\ staleRenders' = StaleAfterRequest(TRUE)
    /\ Render(TRUE, frames, fps, 0, now, TRUE, audioStarts + 1)
    /\ UNCHANGED <<now, isRealtime, currentTime, rendDuration, rSettings, isRecording,
                   recordedFrames, ticks, stray, stoppedOnLoss, frames, fps>>

\* resume(): returns at once without frames; else the clock is set back by the
\* time of the frames already shown and render() runs.
Resume ==
    /\ frames # <<>>
    /\ audioStarts < MaxStarts
    /\ StaleAfterRequest(TRUE) <= MaxStaleRenders
    /\ staleRenders' = StaleAfterRequest(TRUE)
    /\ Render(TRUE, frames, fps, currentFrame, now - currentFrame * FrameDelay(fps),
              TRUE, audioStarts + 1)
    /\ UNCHANGED <<now, isRealtime, currentTime, rendDuration, rSettings, isRecording,
                   recordedFrames, ticks, stray, stoppedOnLoss, frames, fps>>

\* A setFrame that accepts the index one past the last frame.
ValidIndexInclusive(frameIndex, n) == frameIndex >= 0 /\ frameIndex <= n

\* if (frameIndex >= 0 && frameIndex < this.frames.length)
ValidIndex(frameIndex, n) == frameIndex >= 0 /\ frameIndex < n

\* setFrame(frameIndex): for a valid index, take it and render(); else nothing.
SetFrame(frameIndex) ==
    /\ audioStarts < MaxStarts
    /\ IF ValidIndex(frameIndex, Len(frames))
       THEN /\ StaleAfterRequest(isPlaying) <= MaxStaleRenders
            /\ staleRenders' = StaleAfterRequest(isPlaying)
            /\ Render(isPlaying, frames, fps, frameIndex, startTime, audioPlaying,
                      audioStarts)
       ELSE UNCHANGED <<container, isPlaying, animationId, startTime, audioPlaying,
                        currentFrame, audioStarts, lastRender, staleRenders>>
    /\ UNCHANGED <<now, isRealtime, currentTime, rendDuration, rSettings, isRecording,
                   recordedFrames, ticks, stray, stoppedOnLoss, frames, fps>>

\* A render callback whose handle was overwritten runs render(): pause() and
\* stop() cancel the latest handle only.
StaleRenderCallback ==
    /\ staleRenders > 0
    /\ audioStarts < MaxStarts
    /\ staleRenders' = StaleAfterRequest(isPlaying) - 1
    /\ Render(isPlaying, frames, fps, currentFrame, startTime, audioPlaying, audioStarts)
    /\ UNCHANGED <<now, isRealtime, currentTime, rendDuration, rSettings, isRecording,
                   recordedFrames, ticks, stray, stoppedOnLoss, frames, fps>>

\* getPlaybackInfo().currentFrame
PlaybackInfoCurrentFrame ==
    IF isRealtime THEN (currentTime * fps) \div UnitsPerSecond ELSE currentFrame

\* The renderer as constructed: no frames, fps 30.
FramesIdle ==
    /\ frames = <<>>
    /\ fps = 30
    /\ currentFrame = 0
    /\ audioStarts = 0
    /\ lastRender = 0
    /\ staleRenders = 0

----------------------------------------------------------------------------
(* Source loader: VideoProcessor.loadVideo                                  *)

\* Bound on the loadVideo calls of a run.
MaxLoads == 2

\* No loadVideo call yet.  state is the promise's; metadataLoaded,
\* canPlayLoaded, isResolved are the closure's flags; timeoutId is the 30 s
\* timer and forced the 10 s timer ("armed", "fired", "cleared"); readyState,
\* picture (duration, videoWidth and videoHeight are positive) and errored
\* are the element's; count is the number of calls so far.
NoLoad ==
    [state |-> "none", metadataLoaded |-> FALSE, canPlayLoaded |-> FALSE,
     isResolved |-> FALSE, timeoutId |-> "cleared", forced |-> "cleared",
     readyState |-> 0, picture |-> FALSE, errored |-> FALSE, count |-> 0]

\* resolve(...) / reject(...): a promise settles once.
Settled(l, how) == [l EXCEPT !.state = IF @ = "pending" THEN how ELSE @]

\* isVideoReady in checkComplete.
IsVideoReady(l) == l.metadataLoaded /\ l.readyState >= 4 /\ l.picture

\* checkComplete() resolves: getBufferInfo() reads this.video, which cleanup()
\* has set to null, so the buffer percentage it sees is 0 and counts as enough.
Completes(l) == ~l.isResolved /\ IsVideoReady(l)

\* checkComplete() on closure state l: the closure after it, and this.video,
\* this.duration, this.video.readyState.
CheckComplete(l) ==
    IF Completes(l)
    THEN /\ load' = Settled([l EXCEPT !.isResolved = TRUE, !.timeoutId = "cleared"],
                            "resolved")
         /\ video' = FreshSource
         /\ duration' = SrcDuration * TimeScale
         /\ readyState' = l.readyState
         /\ videoTime' = 0
         /\ shownTime' = 0
         /\ seeking' = FALSE
    ELSE /\ load' = l
         /\ UNCHANGED <<video, duration, readyState, videoTime, shownTime, seeking>>

\* What the loader leaves alone in the sampler's state besides the source.
LoadFrame == UNCHANGED <<isMobile, closures, frameCache, call, nextTime, faults, offPath, run>>

\* loadVideo(file): cleanup(), a new element, both timers set.
BeginLoad(picture) ==
    /\ load.state # "pending"
    /\ load.count < MaxLoads
    /\ load' = [NoLoad EXCEPT !.state = "pending", !.timeoutId = "armed",
                              !.forced = "armed", !.picture = picture,
                              !.count = load.count + 1]
    /\ Released
    /\ UNCHANGED <<isMobile, videoTime, shownTime, seeking, nextTime, faults, offPath>>

\* video.onloadedmetadata
LoadedMetadata ==
    /\ load.state # "none"
    /\ ~load.errored
    /\ load.readyState = 0
    /\ load' = [load EXCEPT !.readyState = 1, !.metadataLoaded = TRUE]
    /\ UNCHANGED <<video, duration, readyState, videoTime, shownTime, seeking>>
    /\ LoadFrame

\* More data arrives and the element's readyState goes up by one: at 3
\* video.oncanplay runs, at 4 video.oncanplaythrough.
DataArrives ==
    /\ load.state # "none"
    /\ ~load.errored
    /\ load.readyState \in 1 .. 3
    /\ LET l == [load EXCEPT !.readyState = @ + 1,
                             !.canPlayLoaded = @ \/ load.readyState >= 2]
       IN IF l.readyState = 4
          THEN CheckComplete(l)
          ELSE /\ load' = l
               /\ UNCHANGED <<video, duration, readyState, videoTime, shownTime, seeking>>
    /\ LoadFrame

\* video.onprogress with at least 90 % buffered and readyState 4.
Progress ==
    /\ load.state # "none"
    /\ ~load.errored
    /\ load.readyState = 4
    /\ ~load.isResolved
    /\ CheckComplete(load)
    /\ LoadFrame

\* The 10 s timer fires.
ForcedTimer ==
    /\ load.forced = "armed"
    /\ LET l == [load EXCEPT !.forced = "fired"]
       IN IF l.metadataLoaded /\ ~l.canPlayLoaded
          THEN CheckComplete([l EXCEPT !.canPlayLoaded = TRUE])
          ELSE /\ load' = l
               /\ UNCHANGED <<video, duration, readyState, videoTime, shownTime, seeking>>
    /\ LoadFrame

\* The 30 s timer fires, after the 10 s timer.
LoadTimeout ==
    /\ load.timeoutId = "armed"
    /\ load.forced = "fired"
    /\ LET l == [load EXCEPT !.timeoutId = "fired"]
       IN IF ~l.metadataLoaded
          THEN /\ load' = Settled(l, "rejected")
               /\ UNCHANGED <<video, duration, readyState, videoTime, shownTime, seeking>>
          ELSE IF ~l.canPlayLoaded
          THEN CheckComplete([l EXCEPT !.canPlayLoaded = TRUE])
          ELSE /\ load' = l
               /\ UNCHANGED <<video, duration, readyState, videoTime, shownTime, seeking>>
    /\ LoadFrame

\* video.onerror
LoadError ==
    /\ load.state # "none"
    /\ ~load.errored
    /\ load.readyState < 4
    /\ load' = Settled([load EXCEPT !.errored = TRUE,
                                     !.timeoutId = IF @ = "armed" THEN "cleared" ELSE @],
                       "rejected")
    /\ UNCHANGED <<video, duration, readyState, videoTime, shownTime, seeking>>
    /\ LoadFrame

LoadIdle == load = NoLoad

----------------------------------------------------------------------------
(* Precompute pipeline: VideoPreprocessor (startPreprocessing,              *)
(* stopPreprocessing, saveToStorage, loadFromStorage, cleanup) driven by    *)
(* the application (loadVideo, updateSettings, startPreprocessing,          *)
(* cancelPreprocessing, play).                                              *)
(*                                                                          *)
(* A run is one startPreprocessing invocation: it awaits extractFrame once  *)
(* per frame and reads this.isPreprocessing, this.preprocessedFrames and    *)
(* this.currentVideoId each time it goes on.  The sampler call of a frame   *)
(* is represented by its outcome (a buffer or an error).                    *)

\* Bounds: startPreprocessing invocations in all, frames a run still delivers
\* after it was cancelled, extractFrame failures in all.
MaxPreRuns == 2
MaxLateFrames == 2
MaxFrameErrors == 1

PreRunIds == 1 .. MaxPreRuns

\* if ((frameIndex + 1) % 100 === 0) saveToStorage(...)
saveInterval == 100

\* The File objects the user can choose: name (as its characters), size,
\* lastModified, and the duration of the video in tenths of a second.
Files ==
    { [name |-> <<"a", ".", "m">>, size |-> 1, lastModified |-> 1, duration |-> 1],
      [name |-> <<"b", ".", "m">>, size |-> 9, lastModified |-> 2, duration |-> 34] }

\* The clips short enough to end before the first intermediate save, and the
\* others.
ShortFiles == {f \in Files : f.duration * 30 < 10 * saveInterval}

LongFiles == Files \ ShortFiles

NoFile == [name |-> <<>>, size |-> 0, lastModified |-> 0, duration |-> 0]

\* .replace(/[^a-zA-Z0-9_]/g, '_') on one character
SanitizedChar(ch) == IF ch \in {"a", "b", "m", "_"} THEN ch ELSE "_"

\* generateVideoId: `${file.name}_${file.size}_${file.lastModified}` with every
\* character outside [a-zA-Z0-9_] replaced by '_'.
GenerateVideoId(file) ==
    <<[i \in 1 .. Len(file.name) |-> SanitizedChar(file.name[i])], file.size,
      file.lastModified>>

\* this.currentVideoId = null
NullVideoId == <<>>

\* The keys `ascii_preprocessed_${videoId}` the program can write.
StorageKeys == {GenerateVideoId(f) : f \in Files} \cup {NullVideoId}

\* The values of the quality select and of the width and height inputs.
InputChoices ==
    { [quality |-> "high", asciiWidth |-> 120, asciiHeight |-> 40],
      [quality |-> "high", asciiWidth |-> 60,  asciiHeight |-> 40] }

\* this.settings before updateSettings has stored any.
NoAppSettings == [quality |-> "none", asciiWidth |-> 0, asciiHeight |-> 0, fps |-> 0]

\* const fps = this.isMobile ? 15 : 30
DeviceFps == IF isMobile THEN 15 ELSE 30

\* newSettings of updateSettings for the values in the inputs.
NewSettings(in) ==
    [quality |-> in.quality, asciiWidth |-> in.asciiWidth,
     asciiHeight |-> in.asciiHeight, fps |-> DeviceFps]

\* getDefaultSettings()
GetDefaultSettings ==
    IF isMobile
    THEN [quality |-> "medium", asciiWidth |-> 60, asciiHeight |-> 20, fps |-> 15]
    ELSE [quality |-> "high", asciiWidth |-> 120, asciiHeight |-> 40, fps |-> 30]

\* const settings = this.settings || this.getDefaultSettings()
SettingsOrDefault == IF appSettings = NoAppSettings THEN GetDefaultSettings ELSE appSettings

\* isSettingsCompatible(savedSettings, currentSettings)
IsSettingsCompatible(savedSettings, currentSettings) ==
    /\ savedSettings.asciiWidth = currentSettings.asciiWidth
    /\ savedSettings.asciiHeight = currentSettings.asciiHeight
    /\ savedSettings.quality = currentSettings.quality

\* const totalFrames = Math.floor(videoInfo.duration * settings.fps)
TotalFrames(file, settings) == (file.duration * settings.fps) \div 10

\* localStorage.getItem of a key never written.
NoItem == [frames |-> <<>>, settings |-> NoAppSettings, frameCount |-> -1, expired |-> FALSE]

\* saveToStorage(videoId, frames, settings): the item is written unless it is
\* too large or setItem throws; stored tells which.
SaveToStorage(storage, videoId, list, settings, stored) ==
    IF stored
    THEN [storage EXCEPT ![videoId] = [frames |-> list, settings |-> settings,
                                       frameCount |-> Len(list), expired |-> FALSE]]
    ELSE storage

\* loadFromStorage(videoId): the data (NoItem for null) and the storage after
\* it; an item older than 7 days is removed.
LoadFromStorage(storage, videoId) ==
    IF storage[videoId] = NoItem
    THEN [data |-> NoItem, storage |-> storage]
    ELSE IF storage[videoId].expired
    THEN [data |-> NoItem, storage |-> [storage EXCEPT ![videoId] = NoItem]]
    ELSE [data |-> storage[videoId], storage |-> storage]

\* A run record before its invocation.
NoPreRun ==
    [pc |-> "free", frameIndex |-> 0, totalFrames |-> 0, settings |-> NoAppSettings,
     cancelled |-> FALSE, stopped |-> FALSE]

\* The ASCII frame a run produces: convertToASCII of the sampled buffer, or
\* createEmptyFrame when extractFrame failed.
PreFrame(r, index, settings, ok) ==
    [run |-> r, index |-> index, settings |-> settings, ok |-> ok]

\* The runs that are awaiting extractFrame are marked when isPreprocessing is
\* set to false under them: cancelled by either cleanup() or stopPreprocessing(),
\* stopped by stopPreprocessing().
Interrupted(rs, byStop) ==
    [r \in PreRunIds |->
        IF rs[r].pc = "awaiting"
        THEN [rs[r] EXCEPT !.cancelled = TRUE, !.stopped = @ \/ byStop]
        ELSE rs[r]]

\* VideoPreprocessor.cleanup()
PreCleanup ==
    /\ isPreprocessing' = FALSE
    /\ preprocessedFrames' = <<>>
    /\ currentVideoId' = NullVideoId
    /\ preRuns' = Interrupted(preRuns, FALSE)

\* app.loadVideo(file) up to its first await: clearVideoState().
ChooseFile(file) ==
    /\ loading = NoFile
    /\ loading' = file
    /\ currentVideo' = NoFile
    /\ playbackMode' = "none"
    /\ PreCleanup
    /\ UNCHANGED <<inputs, appSettings, isPreprocessed, localStorage, lateFrames,
                   frameErrors>>

\* app.loadVideo(file) once the video is loaded and ready: currentVideo,
\* showVideoInterface() (which runs updateSettings()), then the look-up of
\* saved data.
FileLoaded ==
    /\ loading # NoFile
    /\ loading' = NoFile
    /\ currentVideo' = loading
    /\ appSettings' = NewSettings(inputs)
    /\ currentVideoId' = GenerateVideoId(loading)
    /\ LET got == LoadFromStorage(localStorage, currentVideoId')
       IN /\ localStorage' = got.storage
          /\ preprocessedFrames' =
                IF got.data # NoItem /\ IsSettingsCompatible(got.data.settings, appSettings')
                THEN got.data.frames ELSE preprocessedFrames
    /\ UNCHANGED <<inputs, isPreprocessed, isPreprocessing, preRuns, playbackMode,
                   lateFrames, frameErrors>>

\* A change event of the quality select or of the width or height input:
\* updateSettings().
UpdateSettings(in) ==
    /\ in # inputs
    /\ inputs' = in
    /\ IF currentVideo = NoFile
       THEN UNCHANGED <<appSettings, isPreprocessed, isPreprocessing, preprocessedFrames,
                        currentVideoId, preRuns>>
       ELSE LET newSettings == NewSettings(in)
                settingsChanged ==
                    \/ appSettings.quality # newSettings.quality
                    \/ appSettings.asciiWidth # newSettings.asciiWidth
                    \/ appSettings.asciiHeight # newSettings.asciiHeight
            IN /\ appSettings' = newSettings
               /\ IF appSettings # NoAppSettings /\ isPreprocessed /\ settingsChanged
                  THEN /\ isPreprocessed' = FALSE
                       /\ PreCleanup
                  ELSE UNCHANGED <<isPreprocessed, isPreprocessing, preprocessedFrames,
                                   currentVideoId, preRuns>>
    /\ UNCHANGED <<currentVideo, loading, localStorage, playbackMode, lateFrames,
                   frameErrors>>

\* app.startPreprocessing() and VideoPreprocessor.startPreprocessing(settings)
\* up to the first await of the run: saved data is taken when compatible, else
\* the loop starts.
StartPreprocessing(r, stored) ==
    /\ currentVideo # NoFile
    /\ ~isPreprocessing
    /\ preRuns[r].pc = "free"
    /\ \A q \in PreRunIds : q < r => preRuns[q].pc # "free"
    /\ LET runSettings == SettingsOrDefault
           videoId == GenerateVideoId(currentVideo)
           total == TotalFrames(currentVideo, runSettings)
           got == LoadFromStorage(localStorage, videoId)
           rec == [NoPreRun EXCEPT !.settings = runSettings, !.totalFrames = total]
       IN /\ currentVideoId' = videoId
          /\ IF got.data # NoItem /\ IsSettingsCompatible(got.data.settings, runSettings)
             THEN /\ preprocessedFrames' = got.data.frames
                  /\ isPreprocessing' = FALSE
                  /\ localStorage' = got.storage
                  /\ preRuns' = [preRuns EXCEPT ![r] = [rec EXCEPT !.pc = "reused"]]
                  /\ stored
             ELSE IF total = 0
             THEN /\ preprocessedFrames' = <<>>
                  /\ isPreprocessing' = FALSE
                  /\ localStorage' = SaveToStorage(got.storage, videoId, <<>>, runSettings,
                                                   stored)
                  /\ preRuns' = [preRuns EXCEPT ![r] = [rec EXCEPT !.pc = "done"]]
             ELSE /\ preprocessedFrames' = <<>>
                  /\ isPreprocessing' = TRUE
                  /\ localStorage' = got.storage
                  /\ preRuns' = [preRuns EXCEPT ![r] = [rec EXCEPT !.pc = "awaiting"]]
                  /\ stored
    /\ UNCHANGED <<currentVideo, loading, inputs, appSettings, isPreprocessed,
                   playbackMode, lateFrames, frameErrors>>

\* The extractFrame call of run r settles (ok: with a buffer): the frame is
\* pushed onto this.preprocessedFrames, saved every saveInterval frames, and
\* the loop goes on to its next test of this.isPreprocessing, or ends with the
\* final save.
FrameDone(r, ok, stored) ==
    /\ preRuns[r].pc = "awaiting"
    /\ IF preRuns[r].cancelled
       THEN lateFrames < MaxLateFrames /\ lateFrames' = lateFrames + 1
       ELSE lateFrames' = lateFrames
    /\ IF ok THEN frameErrors' = frameErrors
       ELSE frameErrors < MaxFrameErrors /\ frameErrors' = frameErrors + 1
    /\ LET rec == preRuns[r]
           pushed == Append(preprocessedFrames,
                            PreFrame(r, rec.frameIndex, rec.settings, ok))
           saves == ok /\ (rec.frameIndex + 1) % saveInterval = 0
           saved == IF saves
                    THEN SaveToStorage(localStorage, currentVideoId, pushed, rec.settings,
                                       stored)
                    ELSE localStorage
           next == rec.frameIndex + 1
       IN /\ preprocessedFrames' = pushed
          /\ IF next < rec.totalFrames
             THEN /\ localStorage' = saved
                  /\ saves \/ stored
                  /\ isPreprocessing' = isPreprocessing
                  /\ preRuns' = [preRuns EXCEPT ![r] =
                                   IF isPreprocessing
                                   THEN [rec EXCEPT !.frameIndex = next]
                                   ELSE [rec EXCEPT !.frameIndex = next, !.pc = "failed"]]
             ELSE /\ localStorage' = SaveToStorage(saved, currentVideoId, pushed,
                                                   rec.settings, stored)
                  /\ isPreprocessing' = FALSE
                  /\ preRuns' = [preRuns EXCEPT ![r] = [rec EXCEPT !.frameIndex = next,
                                                                  !.pc = "done"]]
    /\ UNCHANGED <<currentVideo, loading, inputs, appSettings, isPreprocessed,
                   currentVideoId, playbackMode>>

\* The extractFrame call of a run that nothing has interrupted settles with a
\* buffer.
FrameSampled(r, stored) ==
    /\ ~preRuns[r].cancelled
    /\ FrameDone(r, TRUE, stored)

\* app.cancelPreprocessing(): stopPreprocessing() while a run is on.
CancelPreprocessing ==
    /\ isPreprocessing
    /\ isPreprocessing' = FALSE
    /\ preRuns' = Interrupted(preRuns, TRUE)
    /\ UNCHANGED <<currentVideo, loading, inputs, appSettings, isPreprocessed,
                   preprocessedFrames, currentVideoId, localStorage, playbackMode,
                   lateFrames, frameErrors>>

\* app.play(): playback of the preprocessed frames when there are any, else
\* live playback.
AppPlay ==
    /\ currentVideo # NoFile
    /\ playbackMode = "none"
    /\ playbackMode' = IF Len(preprocessedFrames) > 0 THEN "precomputed" ELSE "live"
    /\ UNCHANGED <<currentVideo, loading, inputs, appSettings, isPreprocessed,
                   isPreprocessing, preprocessedFrames, currentVideoId, preRuns,
                   localStorage, lateFrames, frameErrors>>

\* app.stop()
AppStop ==
    /\ playbackMode # "none"
    /\ playbackMode' = "none"
    /\ UNCHANGED <<currentVideo, loading, inputs, appSettings, isPreprocessed,
                   isPreprocessing, preprocessedFrames, currentVideoId, preRuns,
                   localStorage, lateFrames, frameErrors>>

\* Seven days pass: every item in the storage is older than maxAge.
WeekPasses ==
    /\ \E k \in StorageKeys : localStorage[k] # NoItem /\ ~localStorage[k].expired
    /\ localStorage' = [k \in StorageKeys |->
                          IF localStorage[k] = NoItem THEN NoItem
                          ELSE [localStorage[k] EXCEPT !.expired = TRUE]]
    /\ UNCHANGED <<currentVideo, loading, inputs, appSettings, isPreprocessed,
                   isPreprocessing, preprocessedFrames, currentVideoId, preRuns,
                   playbackMode, lateFrames, frameErrors>>

\* The application and the preprocessor as constructed, with the inputs at
\* their defaults and an empty storage.
PreIdle ==
    /\ currentVideo = NoFile
    /\ loading = NoFile
    /\ inputs = [quality |-> "high", asciiWidth |-> 120, asciiHeight |-> 40]
    /\ appSettings = NoAppSettings
    /\ isPreprocessed = FALSE
    /\ isPreprocessing = FALSE
    /\ preprocessedFrames = <<>>
    /\ currentVideoId = NullVideoId
    /\ preRuns = [r \in PreRunIds |-> NoPreRun]
    /\ localStorage = [k \in StorageKeys |-> NoItem]
    /\ playbackMode = "none"
    /\ lateFrames = 0
    /\ frameErrors = 0

----------------------------------------------------------------------------
(* Specifications                                                           *)

InitConv == ConvInputs /\ QualityIdle /\ CacheIdle /\ PlayerIdle /\ FramesIdle /\ LoadIdle
    /\ PreIdle

NextConv ==
    \/ Convert /\ UNCHANGED <<qualityVars, cacheVars, playerVars, framesVars, loadVars, preVars>>
    \/ ShowEmptyFrame /\ UNCHANGED <<qualityVars, cacheVars, playerVars, framesVars, loadVars, preVars>>

SpecConv == InitConv /\ [][NextConv]_vars

\* The converter on pairs of one-pixel blocks.
InitGlyph == GlyphInputs /\ QualityIdle /\ CacheIdle /\ PlayerIdle /\ FramesIdle /\ LoadIdle
    /\ PreIdle

SpecGlyph == InitGlyph /\ [][NextConv]_vars

InitQuality == ConvIdle /\ QualityInputs /\ CacheIdle /\ PlayerIdle /\ FramesIdle /\ LoadIdle
    /\ PreIdle

NextQuality ==
    \E frameTime \in Latencies :
        AdaptQuality(frameTime) /\ UNCHANGED <<convVars, cacheVars, playerVars, framesVars, loadVars, preVars>>

SpecQuality == InitQuality /\ [][NextQuality]_vars

InitCache == ConvIdle /\ QualityIdle /\ CacheIdle /\ PlayerIdle /\ FramesIdle /\ LoadIdle
    /\ PreIdle

NextCache ==
    \/ \E c \in Callers, time \in RequestTimes : \E res \in ResolutionsOf(c) :
          ExtractFrame(c, time, res[1], res[2]) /\ UNCHANGED <<convVars, qualityVars, playerVars, framesVars, loadVars, preVars>>
    \/ \E c \in Callers : BackoffDone(c) /\ UNCHANGED <<convVars, qualityVars, playerVars, framesVars, loadVars, preVars>>
    \/ Seeked /\ UNCHANGED <<convVars, qualityVars, playerVars, framesVars, loadVars, preVars>>
    \/ \E c \in Callers : Return(c) /\ UNCHANGED <<convVars, qualityVars, playerVars, framesVars, loadVars, preVars>>
    \/ LoadVideo /\ UNCHANGED <<convVars, qualityVars, playerVars, framesVars, loadVars, preVars>>

SpecCache == InitCache /\ [][NextCache]_vars

InitSampler == ConvIdle /\ QualityIdle /\ SamplerInputs /\ PlayerIdle /\ FramesIdle /\ LoadIdle
    /\ PreIdle

NextSampler ==
    \/ \E c \in Callers, time \in RequestTimes : \E res \in ResolutionsOf(c) :
          /\ nextTime <= MaxSamplerTimes
          /\ ExtractFrame(c, time, res[1], res[2])
          /\ UNCHANGED <<convVars, qualityVars, playerVars, framesVars, loadVars, preVars>>
    \/ \E c \in Callers : BackoffDone(c) /\ UNCHANGED <<convVars, qualityVars, playerVars, framesVars, loadVars, preVars>>
    \/ \E c \in Callers : StallWaitDone(c) /\ UNCHANGED <<convVars, qualityVars, playerVars, framesVars, loadVars, preVars>>
    \/ \E c \in Callers : PollReady(c) /\ UNCHANGED <<convVars, qualityVars, playerVars, framesVars, loadVars, preVars>>
    \/ \E c \in Callers : PollCeiling(c) /\ UNCHANGED <<convVars, qualityVars, playerVars, framesVars, loadVars, preVars>>
    \/ \E c \in Callers : SeekTimeout(c) /\ UNCHANGED <<convVars, qualityVars, playerVars, framesVars, loadVars, preVars>>
    \/ SourceError /\ UNCHANGED <<convVars, qualityVars, playerVars, framesVars, loadVars, preVars>>
    \/ Seeked /\ UNCHANGED <<convVars, qualityVars, playerVars, framesVars, loadVars, preVars>>
    \/ \E c \in Callers : Return(c) /\ UNCHANGED <<convVars, qualityVars, playerVars, framesVars, loadVars, preVars>>
    \/ LoadVideo /\ UNCHANGED <<convVars, qualityVars, playerVars, framesVars, loadVars, preVars>>
    \/ Cleanup /\ UNCHANGED <<convVars, qualityVars, playerVars, framesVars, loadVars, preVars>>
    \/ SeekedReleased /\ UNCHANGED <<convVars, qualityVars, playerVars, framesVars, loadVars, preVars>>
    \/ \E level \in 0 .. 3 : Stall(level) /\ UNCHANGED <<convVars, qualityVars, playerVars, framesVars, loadVars, preVars>>
    \/ Buffered /\ UNCHANGED <<convVars, qualityVars, playerVars, framesVars, loadVars, preVars>>

SpecSampler == InitSampler /\ [][NextSampler]_vars

InitRace == ConvIdle /\ QualityIdle /\ CacheIdle /\ PlayerIdle /\ FramesIdle /\ LoadIdle
    /\ PreIdle

\* The race of the seeked event, the deadline timer and the error event over
\* the attempts of a few requests.
NextRace ==
    \/ \E c \in Callers, time \in FreshTimes \cup {0} : \E res \in ResolutionsOf(c) :
          /\ nextTime <= MaxSamplerTimes
          /\ ExtractFrame(c, time, res[1], res[2])
          /\ UNCHANGED <<convVars, qualityVars, playerVars, framesVars, loadVars, preVars>>
    \/ \E c \in Callers : BackoffDone(c) /\ UNCHANGED <<convVars, qualityVars, playerVars, framesVars, loadVars, preVars>>
    \/ \E c \in Callers : SeekTimeout(c) /\ UNCHANGED <<convVars, qualityVars, playerVars, framesVars, loadVars, preVars>>
    \/ SourceError /\ UNCHANGED <<convVars, qualityVars, playerVars, framesVars, loadVars, preVars>>
    \/ Seeked /\ UNCHANGED <<convVars, qualityVars, playerVars, framesVars, loadVars, preVars>>
    \/ \E c \in Callers : Return(c) /\ UNCHANGED <<convVars, qualityVars, playerVars, framesVars, loadVars, preVars>>
    \/ LoadVideo /\ UNCHANGED <<convVars, qualityVars, playerVars, framesVars, loadVars, preVars>>

SpecRace == InitRace /\ [][NextRace]_vars

\* SpecRace with seeks to the far end of the source: the cursor moves by more
\* than 0.1 s in one seek.
NextDrift ==
    \/ \E c \in Callers, time \in FreshTimes \cup {0, duration} : \E res \in ResolutionsOf(c) :
          /\ nextTime <= MaxSamplerTimes
          /\ ExtractFrame(c, time, res[1], res[2])
          /\ UNCHANGED <<convVars, qualityVars, playerVars, framesVars, loadVars, preVars>>
    \/ \E c \in Callers : BackoffDone(c) /\ UNCHANGED <<convVars, qualityVars, playerVars, framesVars, loadVars, preVars>>
    \/ \E c \in Callers : SeekTimeout(c) /\ UNCHANGED <<convVars, qualityVars, playerVars, framesVars, loadVars, preVars>>
    \/ SourceError /\ UNCHANGED <<convVars, qualityVars, playerVars, framesVars, loadVars, preVars>>
    \/ Seeked /\ UNCHANGED <<convVars, qualityVars, playerVars, framesVars, loadVars, preVars>>
    \/ \E c \in Callers : Return(c) /\ UNCHANGED <<convVars, qualityVars, playerVars, framesVars, loadVars, preVars>>
    \/ LoadVideo /\ UNCHANGED <<convVars, qualityVars, playerVars, framesVars, loadVars, preVars>>

SpecDrift == InitRace /\ [][NextDrift]_vars

\* The sampler under timeouts, errors and overlapping calls as in SpecRace,
\* with more requests off the forward path.
InitOverlap == ConvIdle /\ QualityIdle /\ OverlapInputs /\ PlayerIdle /\ FramesIdle /\ LoadIdle
    /\ PreIdle

SpecOverlap == InitOverlap /\ [][NextRace]_vars

InitPlayer == ConvIdle /\ QualityIdle /\ CacheIdle /\ PlayerIdle /\ FramesIdle /\ LoadIdle
    /\ PreIdle

\* What a player step leaves alone besides frameTimes and the source.
PlayerFrame ==
    UNCHANGED <<convVars, qcSettings, qcAdapted, qcCalls, qcShifts, cacheVars, framesVars,
                loadVars, preVars>>

NextPlayer ==
    \/ Play /\ PlayerFrame
    \/ Pause /\ PlayerFrame
    \/ Stop /\ PlayerFrame
    \/ StartRecording /\ PlayerFrame
    \/ StopRecording /\ PlayerFrame
    \/ \E i \in TickIds, ok \in BOOLEAN : SampleDone(i, ok) /\ PlayerFrame
    \/ \E i \in TickIds : TimerFired(i) /\ PlayerFrame
    \/ \E i \in TickIds : AnimationFrame(i) /\ PlayerFrame
    \/ Elapse /\ PlayerFrame
    \/ LoadVideo /\ UNCHANGED <<convVars, qualityVars, playerVars, framesVars, loadVars, preVars>>

SpecPlayer == InitPlayer /\ [][NextPlayer]_vars

\* The driver without the recorder and with the event loop running: a timer
\* that is due fires, and a requested animation frame is delivered unless it
\* is cancelled.
NextLive ==
    \/ Play /\ PlayerFrame
    \/ Pause /\ PlayerFrame
    \/ Stop /\ PlayerFrame
    \/ \E i \in TickIds, ok \in BOOLEAN : SampleDone(i, ok) /\ PlayerFrame
    \/ \E i \in TickIds : TimerFired(i) /\ PlayerFrame
    \/ \E i \in TickIds : AnimationFrame(i) /\ PlayerFrame
    \/ Elapse /\ PlayerFrame
    \/ LoadVideo /\ UNCHANGED <<convVars, qualityVars, playerVars, framesVars, loadVars, preVars>>

SpecPlayerLive ==
    /\ InitPlayer
    /\ [][NextLive]_vars
    /\ \A i \in TickIds : WF_vars(TimerFired(i) /\ PlayerFrame)
    /\ \A i \in TickIds : WF_vars(AnimationFrame(i) /\ PlayerFrame)

InitFrames == ConvIdle /\ QualityIdle /\ CacheIdle /\ PlayerIdle /\ FramesIdle /\ LoadIdle
    /\ PreIdle

\* What a step of the precomputed mode leaves alone.
FramesFrame == UNCHANGED <<convVars, qualityVars, cacheVars, loadVars, preVars>>

NextFrames ==
    \/ \E n \in 1 .. MaxFrames, f \in FpsChoices :
          StartPreprocessedPlayback(n, f) /\ FramesFrame
    \/ RenderCallback /\ FramesFrame
    \/ PauseFrames /\ FramesFrame
    \/ StopFrames /\ FramesFrame
    \/ \E d \in Delays : Wait(d) /\ FramesFrame

SpecFrames == InitFrames /\ [][NextFrames]_vars

\* The frame indices handed to setFrame: the valid ones and their neighbours.
FrameIndices == -1 .. MaxFrames

\* Time between two calls: one frame period at 10 fps, or longer than a list.
SeekDelays == {40, 100}

\* The precomputed mode driven through every public call of the renderer, with
\* full lists for playback and empty, shorter and full lists for setFrames.
NextSeek ==
    \/ \E n \in {MaxFrames}, f \in FpsChoices :
          StartPreprocessedPlayback(n, f) /\ FramesFrame
    \/ \E n \in {0, MaxFrames - 1, MaxFrames}, f \in FpsChoices : SetFrames(n, f) /\ FramesFrame
    \/ PlayFrames /\ FramesFrame
    \/ Resume /\ FramesFrame
    \/ \E frameIndex \in FrameIndices : SetFrame(frameIndex) /\ FramesFrame
    \/ RenderCallback /\ FramesFrame
    \/ StaleRenderCallback /\ FramesFrame
    \/ PauseFrames /\ FramesFrame
    \/ StopFrames /\ FramesFrame
    \/ \E d \in SeekDelays : now + d <= MaxSeekClock /\ Wait(d) /\ FramesFrame

SpecSeek == InitFrames /\ [][NextSeek]_vars

InitLoad == ConvIdle /\ QualityIdle /\ CacheIdle /\ PlayerIdle /\ FramesIdle /\ LoadIdle
    /\ PreIdle

\* What a step of the loader leaves alone.
LoaderFrame == UNCHANGED <<convVars, qualityVars, playerVars, framesVars, preVars>>

NextLoad ==
    \/ \E picture \in BOOLEAN : BeginLoad(picture) /\ LoaderFrame
    \/ LoadedMetadata /\ LoaderFrame
    \/ DataArrives /\ LoaderFrame
    \/ Progress /\ LoaderFrame
    \/ ForcedTimer /\ LoaderFrame
    \/ LoadTimeout /\ LoaderFrame
    \/ LoadError /\ LoaderFrame

SpecLoad == InitLoad /\ [][NextLoad]_vars

\* The precompute pipeline: the user chooses files, changes the inputs, starts
\* and cancels preprocessing, plays and stops.
InitPre == ConvIdle /\ QualityIdle /\ CacheIdle /\ PlayerIdle /\ FramesIdle /\ LoadIdle
    /\ PreIdle

PreFrameCondition ==
    UNCHANGED <<convVars, qualityVars, cacheVars, playerVars, framesVars, loadVars>>

NextPre ==
    \/ \E file \in ShortFiles : ChooseFile(file) /\ PreFrameCondition
    \/ FileLoaded /\ PreFrameCondition
    \/ \E in \in InputChoices : UpdateSettings(in) /\ PreFrameCondition
    \/ \E r \in PreRunIds, stored \in BOOLEAN :
          StartPreprocessing(r, stored) /\ PreFrameCondition
    \/ \E r \in PreRunIds, ok \in BOOLEAN, stored \in BOOLEAN :
          FrameDone(r, ok, stored) /\ PreFrameCondition
    \/ CancelPreprocessing /\ PreFrameCondition
    \/ AppPlay /\ PreFrameCondition
    \/ AppStop /\ PreFrameCondition
    \/ WeekPasses /\ PreFrameCondition

SpecPre == InitPre /\ [][NextPre]_vars

\* The precompute pipeline on a clip long enough for intermediate saves, with
\* runs whose extractFrame calls all succeed, up to the moment the pending
\* call of an interrupted run would settle.
NextPreLong ==
    \/ \E file \in LongFiles : ChooseFile(file) /\ PreFrameCondition
    \/ FileLoaded /\ PreFrameCondition
    \/ \E r \in PreRunIds, stored \in BOOLEAN :
          StartPreprocessing(r, stored) /\ PreFrameCondition
    \/ \E r \in PreRunIds, stored \in BOOLEAN :
          FrameSampled(r, stored) /\ PreFrameCondition
    \/ CancelPreprocessing /\ PreFrameCondition

SpecPreLong == InitPre /\ [][NextPreLong]_vars

\* The quality controller across a release of the source: adaptQuality calls
\* of the live driver before and after cleanup() and the load of the next file.
InitReset == ConvIdle /\ QualityInputs /\ CacheIdle /\ PlayerIdle /\ FramesIdle /\ LoadIdle
    /\ PreIdle

NextReset ==
    \/ \E frameTime \in ResetLatencies :
          AdaptQuality(frameTime) /\ UNCHANGED <<convVars, cacheVars, playerVars, framesVars, loadVars, preVars>>
    \/ LoadVideo /\ UNCHANGED <<convVars, qualityVars, playerVars, framesVars, loadVars, preVars>>
    \/ Cleanup /\ UNCHANGED <<convVars, qualityVars, playerVars, framesVars, loadVars, preVars>>

SpecReset == InitReset /\ [][NextReset]_vars

\* A wait as long as the source.
LongWaits == {SrcDuration * TimeScale}

\* The live drive loop with long waits between its events.
NextWait ==
    \/ Play /\ PlayerFrame
    \/ Pause /\ PlayerFrame
    \/ Stop /\ PlayerFrame
    \/ \E i \in TickIds, ok \in BOOLEAN : SampleDone(i, ok) /\ PlayerFrame
    \/ \E i \in TickIds : TimerFired(i) /\ PlayerFrame
    \/ \E i \in TickIds : AnimationFrame(i) /\ PlayerFrame
    \/ Elapse /\ PlayerFrame
    \/ \E d \in LongWaits : ElapseBy(d) /\ PlayerFrame
    \/ LoadVideo /\ UNCHANGED <<convVars, qualityVars, playerVars, framesVars, loadVars, preVars>>

SpecWait == InitPlayer /\ [][NextWait]_vars

\* The live drive loop with a holder of the processor that calls cleanup()
\* while the driver runs.  The application
\* itself stops the driver before it releases the source (clearVideoState);
\* the test of the source handle in renderRealtime is the driver's own guard
\* for a processor released by anyone else.
NextLoss ==
    \/ Play /\ PlayerFrame
    \/ Pause /\ PlayerFrame
    \/ Stop /\ PlayerFrame
    \/ \E i \in TickIds, ok \in BOOLEAN : SampleDone(i, ok) /\ PlayerFrame
    \/ \E i \in TickIds : TimerFired(i) /\ PlayerFrame
    \/ \E i \in TickIds : AnimationFrame(i) /\ PlayerFrame
    \/ Elapse /\ PlayerFrame
    \/ LoadVideo /\ UNCHANGED <<convVars, qualityVars, playerVars, framesVars, loadVars, preVars>>
    \/ Cleanup /\ UNCHANGED <<convVars, qualityVars, playerVars, framesVars, loadVars, preVars>>

SpecLoss == InitPlayer /\ [][NextLoss]_vars

----------------------------------------------------------------------------
(* Claims                                                                   *)

\* C1: in live mode at most one renderRealtime tick is in progress or
\* scheduled at any time, for any sequence of play, pause, stop, timer
\* firings and sampling completions.
C1_AtMostOneTick == Cardinality(LiveTicks(ticks)) <= 1

\* C2: after pause() or stop() has returned, no tick that was pending or in
\* flight at the time of the call runs, displays a frame, feeds the recorder
\* or schedules a further tick.
C2_NoStrayTick == stray = {}


\* C5: for every pixel buffer and every requested grid outW x outH (both >= 1),
\* the frame convertToASCII returns has at most outH lines and every line has
\* at most outW characters.
C5_GridWithinRequest ==
    cvDone => /\ NumLines(cvFrame) <= cvSettings.asciiHeight
              /\ MaxLineLen(cvFrame) <= cvSettings.asciiWidth

C8_AdaptRule ==
    qcCalls > 0 =>
      LET n == Len(frameTimes)
          total == SeqSum(frameTimes)
          w == qcSettings.asciiWidth
          h == qcSettings.asciiHeight
      IN /\ (10 * total > 495 * n) =>
               /\ qcAdapted.asciiWidth = Max(60, (4 * w) \div 5)
               /\ qcAdapted.asciiHeight = Max(20, (4 * h) \div 5)
         /\ (10 * total < 165 * n) =>
               /\ qcAdapted.asciiWidth = Min(200, (11 * w) \div 10)
               /\ qcAdapted.asciiHeight = Min(80, (11 * h) \div 10)
         /\ (10 * total <= 495 * n /\ 10 * total >= 165 * n) =>
               qcAdapted = qcSettings
         /\ (frameTimes = <<60, 60, 60, 60, 60>> /\ w = 120 /\ h = 40) =>
               qcAdapted = [asciiWidth |-> 96, asciiHeight |-> 32]

\* C8 witness: the example of the claim has been fed.
C8_Witness ==
    /\ frameTimes = <<60, 60, 60, 60, 60>>
    /\ qcSettings = [asciiWidth |-> 120, asciiHeight |-> 40]
    /\ qcAdapted = [asciiWidth |-> 96, asciiHeight |-> 32]

\* The requested time of caller c's call lies in [0, duration].
ValidTime(c) == call[c].time >= 0 /\ call[c].time <= duration

\* C3: the frame cache never holds more than cacheSize entries, for every
\* interleaving of extractFrame calls.
C3_CacheWithinCapacity == Len(frameCache) <= cacheSize

\* C4: starting from an empty cache, extracting frames for cacheSize + 1
\* distinct keys one after another leaves exactly cacheSize entries, and the
\* missing entry is the one of the first-inserted key.
C4_FirstInsertedEvicted ==
    ( /\ run # Broken
      /\ Len(run) = cacheSize + 1
      /\ Cardinality({run[i] : i \in 1 .. Len(run)}) = Len(run) )
    => /\ Len(frameCache) = cacheSize
       /\ CacheKeys(frameCache) = Tail(run)
       /\ ~CacheHas(frameCache, run[1])

\* C4 witness: cacheSize + 1 distinct keys have been inserted one after another.
C4_Witness ==
    /\ run # Broken
    /\ Len(run) = cacheSize + 1
    /\ Len(frameCache) = cacheSize

\* The frame a caller obtains by converting the buffer its call returned with
\* the resolution it requested.
FrameOf(c) ==
    ConvertToASCII(BufferImage(call[c].result),
                   [asciiWidth |-> call[c].width, asciiHeight |-> call[c].height])

\* C6: for a valid timestamp, the frame obtained by sampling at (t, outW, outH)
\* and converting with the same outW, outH has exactly outH lines of exactly
\* outW characters.
C6_SampledFrameShape ==
    \A c \in Callers :
        (call[c].pc = "returned" /\ ValidTime(c)) =>
            LET ls == SplitLines(FrameOf(c))
            IN /\ Len(ls) = call[c].height
               /\ \A i \in 1 .. Len(ls) : Len(ls[i]) = call[c].width

\* C6 witness: a call at 3 x 1 returned a buffer sampled for it and the frame
\* is one line of three characters.
C6_Witness ==
    \E c \in Callers :
        /\ call[c].pc = "returned"
        /\ ValidTime(c)
        /\ call[c].width = 3 /\ call[c].height = 1
        /\ call[c].attempt = 1
        /\ Len(FrameOf(c)) = 3

\* C9: an extractFrame call with time < 0 or time > duration never returns a
\* pixel buffer: it fails with the InvalidTime error (on a loaded source).
C9_InvalidTimeRejected ==
    \A c \in Callers :
        (Due(c) /\ video # NoVideo /\ ~ValidTime(c)) =>
            /\ call[c].pc = "failed"
            /\ call[c].lastError = "InvalidTime"
            /\ call[c].result = NoBuffer

\* The retry delays of a policy with base delay base: base, 2 base, 4 base, ...
Doubling(base, n) == [i \in 1 .. n |-> base * 2 ^ (i - 1)]

\* C10: a request that keeps failing is attempted at most 3 times (5 on a
\* mobile-class device), the waits between attempts double from 500 ms (1000 ms
\* on a mobile-class device), there is no wait after the last attempt, and the
\* last error is surfaced; this holds for requests issued through extractFrame.
C10_RetryPolicy ==
    \A c \in Callers :
        LET max  == IF isMobile THEN 5 ELSE 3
            base == IF isMobile THEN 1000 ELSE 500
        IN /\ call[c].attempt <= max
           /\ call[c].waits = Doubling(base, Len(call[c].waits))
           /\ Len(call[c].waits) <= max - 1
           /\ (call[c].pc = "failed" /\ video # NoVideo) =>
                 /\ call[c].attempt = max
                 /\ Len(call[c].waits) = max - 1
                 /\ call[c].lastError # "none"

\* C11: each sampling attempt is settled exactly once, by whichever of the
\* seeked event, the deadline timer or the error event comes first; an event
\* that arrives after the attempt is settled runs no handler body (no frame
\* drawn, no second cleanup() and cursor restore, no second resolve / reject),
\* and a call awaits its seek exactly while its attempt is unsettled.
C11_SettledOnce ==
    /\ \A cl \in closures :
          /\ cl.settles = IF cl.resolved THEN 1 ELSE 0
          /\ cl.resolved <=> cl.by # "none"
          /\ cl.resolved => ~cl.timer /\ cl.c = 0
          /\ ~cl.resolved => cl.timer /\ cl.onSeeked /\ cl.onError /\ cl.c \in Callers
    /\ \A c \in Callers :
          Cardinality({cl \in closures : cl.c = c}) =
              IF call[c].pc = "seeking" THEN 1 ELSE 0

\* C11 witness: an attempt was settled by its deadline timer and the seeked
\* event arrived afterwards (its listener has run and is gone).
C11_Witness ==
    \E cl \in closures : cl.by = "timeout" /\ ~cl.onSeeked /\ cl.onError /\ cl.settles = 1

\* C12: if this.video becomes invalid while a sample request is being
\* retried, the retry sequence aborts: no sampling attempt of that request
\* goes past the check of the handle afterwards.
C12_AbortsOnLoss == \A c \in Callers : ~call[c].resumed

\* C13: in live playback a failed extractFrame is not fatal: the tick shows
\* the empty frame, the renderer stays playing with the next tick on its
\* timer, and renderRealtime runs again in that chain unless pause or stop
\* intervenes (or the bound on renderRealtime runs is reached).
C13_FailureNotFatal ==
    /\ [][\A i \in TickIds :
              (ticks[i].stage = "sampling" /\ ticks'[i].failed)
                  => /\ container' = EmptyFrameContent
                     /\ isPlaying /\ isPlaying' /\ isRealtime'
                     /\ ticks'[i].stage = "timer"]_vars
    /\ \A i \in TickIds :
          ticks[i].failed ~> (~ticks[i].failed \/ Len(frameTimes) >= MaxRuns)

\* A chain whose sampling failed has run renderRealtime again and is sampling.
C13_Witness ==
    \E i \in TickIds :
        /\ ticks[i].stage = "sampling"
        /\ ~ticks[i].stale
        /\ container = EmptyFrameContent
        /\ isPlaying

\* C14: once stop() has run and until play is requested again (isRealtime is
\* false meanwhile), no animation frame is pending, the audio is stopped,
\* currentTime is 0 and the display is empty.
C14_StoppedStaysReset ==
    ~isRealtime =>
        /\ animationId = NoHandle
        /\ \A i \in TickIds : ticks[i].stage # "frame"
        /\ ~audioPlaying
        /\ currentTime = 0
        /\ container = NoContent

\* C15: when playback is resumed after a pause (the renderer is not playing
\* and still in live mode, and a step makes it play), the position the next
\* frame is produced for is the position of the pause or later.
C15_ResumeContinues ==
    [][(~isPlaying /\ isRealtime /\ isPlaying') => currentTime' >= currentTime]_vars

\* C16 as stated: in precomputed mode getPlaybackInfo().currentFrame never
\* reports N or more, and while playing it goes back only from N-1 to 0.
C16_WrapsFromLast ==
    /\ [](frames # <<>> => PlaybackInfoCurrentFrame < Len(frames))
    /\ [][(isPlaying /\ isPlaying' /\ currentFrame' < currentFrame)
            => currentFrame' = 0 /\ currentFrame = Len(frames) - 1]_vars

\* C16, amended: in precomputed mode getPlaybackInfo().currentFrame never
\* reports N or more; while playing it never goes back except to 0 at the end
\* of the list, where the clock and the audio are restarted; it goes back from
\* N-1 when render() ran at most one frame period before.
C16_LoopsToStart ==
    /\ [](frames # <<>> => PlaybackInfoCurrentFrame < Len(frames))
    /\ [][(isPlaying /\ isPlaying' /\ currentFrame' < currentFrame)
            => /\ currentFrame' = 0
               /\ startTime' = now
               /\ audioStarts' = audioStarts + 1
               /\ audioPlaying'
               /\ now - lastRender <= FrameDelay(fps)
                     => currentFrame = Len(frames) - 1]_vars

\* Three frames at fps 10: frame 2 was shown and the list has started again.
C16_Witness ==
    /\ Len(frames) = 3
    /\ fps = 10
    /\ isPlaying
    /\ container = StoredFrame(2)
    /\ currentFrame = 0
    /\ startTime = now
    /\ startTime > 0
    /\ audioStarts = 2

\* C17: a load does not stay pending: once the bounded wait is over (both
\* timers of loadVideo have fired) the promise has been resolved or rejected.
C17_SettledAfterBoundedWait ==
    (load.forced = "fired" /\ load.timeoutId = "fired") => load.state # "pending"

\* Two buffers have the same bytes: the same source at the same size, drawn
\* at positions in the same centisecond.
SameBytes(a, b) ==
    /\ a.src = b.src
    /\ a.width = b.width
    /\ a.height = b.height
    /\ ToFixed2(a.t) = ToFixed2(b.t)

\* C18: the buffer the cache holds for a key (t, outW, outH) is the one the
\* first call returned: as long as the entry stays in the cache its bytes are
\* not replaced by others, so every repeated call gets the same bytes.
C18_EntryKeepsBuffer ==
    [][\A i \in 1 .. Len(frameCache) :
          CacheHas(frameCache', frameCache[i].key)
              => SameBytes(CacheGet(frameCache', frameCache[i].key),
                           frameCache[i].value)]_vars

\* C19: of two blocks, the one with the higher mean luminance (0 .. 255) never
\* gets a glyph earlier in the ramp " .:-=+*#%@" than the other.
C19_MonotoneGlyphs ==
    cvDone =>
        LET g1 == GrayOfBlock(cvImage.data, 8, 0, 0, 1, 1)
            g2 == GrayOfBlock(cvImage.data, 8, 1, 0, 1, 1)
        IN /\ Len(cvFrame) = 2
           /\ g1 <= g2 => GlyphIndex(cvFrame[1]) <= GlyphIndex(cvFrame[2])
           /\ g1 >= g2 => GlyphIndex(cvFrame[1]) >= GlyphIndex(cvFrame[2])

\* A darker block left of a lighter one, converted to an earlier and a later
\* glyph of the ramp.
C19_Witness ==
    /\ cvDone
    /\ GrayOfBlock(cvImage.data, 8, 0, 0, 1, 1) = 100
    /\ GrayOfBlock(cvImage.data, 8, 1, 0, 1, 1) = 200
    /\ cvFrame = <<"-", "#">>

\* C20: for a buffer whose width or height is 0 the frame convertToASCII
\* returns is empty: it has no glyphs and no lines.
C20_DegenerateIsEmpty ==
    (cvDone /\ (cvImage.width = 0 \/ cvImage.height = 0)) => cvFrame = <<>>


\* C22: an InvalidTime failure is not retried: a request on a source that
\* stayed loaded whose attempt threw InvalidTime has made exactly one attempt,
\* waits for no backoff delay, and its error is on its way to the caller.
C22_InvalidTimeNotRetried ==
    \A c \in Callers :
        (call[c].lastError = "InvalidTime" /\ ~call[c].lost) =>
            /\ call[c].attempt = 1
            /\ call[c].waits = <<>>
            /\ call[c].pc = "failed"


\* C26: an extractFrame call that fails leaves the frame cache as it was: it
\* has deleted no entry from it, also when the cache was at capacity.
C26_FailedCallKeepsCache ==
    \A c \in Callers : call[c].pc = "failed" => call[c].evicted = <<>>


\* C25: after a pipeline reset the frame cache holds only buffers sampled from
\* the current source: while a source is loaded, no cached buffer was drawn
\* from another one.
C25_CacheOfCurrentSource ==
    video # NoVideo =>
        \A i \in 1 .. Len(frameCache) : frameCache[i].value.src = video


\* C29: the buffer a sampling attempt for time t returns is read on the
\* completion of the seek to t that this attempt issued: a call that sampled
\* (it did not hit the cache) returns the frame presented at position t.
C29_BufferOfOwnSeek ==
    \A c \in Callers :
        (call[c].pc = "returned" /\ call[c].attempt > 0) =>
            call[c].result.t = call[c].time


\* C23: within a live tick the quality controller is fed only once the frame
\* of that tick has been sampled, converted and displayed: a latency sample
\* enters the window only in a step in which a tick leaves its sampling stage.
C23_LatencyAfterWork ==
    [][frameTimes' # frameTimes =>
          \E i \in TickIds : ticks[i].stage = "sampling" /\ ticks'[i].stage # "sampling"]_vars

\* C24: the settings the quality controller returns on one tick are those the
\* next tick adjusts: from the second call on, the adapted settings are derived
\* from the adapted settings of the call before.
C24_AdaptedFeedNextTick ==
    [][(qcCalls > 0 /\ qcCalls' = qcCalls + 1) =>
          qcAdapted' = AdaptedSettings(frameTimes', qcAdapted)]_vars


\* C21: persisted sequences are keyed by source and settings: a save never
\* replaces or removes the sequence persisted for the same source under
\* different settings, so a later load under those settings still finds it.
C21_SavedPerSettings ==
    [][\A k \in StorageKeys :
          (localStorage[k] # NoItem /\ ~localStorage[k].expired) =>
              /\ localStorage'[k] # NoItem
              /\ IsSettingsCompatible(localStorage[k].settings,
                                      localStorage'[k].settings)]_vars


\* C27: after stopPreprocessing() has cancelled a run, that run appends no
\* further frame to preprocessedFrames.
C27_CancelledRunAppendsNothing ==
    [][\A r \in PreRunIds :
          preRuns[r].stopped =>
              ~ \E ok \in BOOLEAN :
                    preprocessedFrames' =
                        Append(preprocessedFrames,
                               PreFrame(r, preRuns[r].frameIndex, preRuns[r].settings, ok))]_vars


\* C30: frames produced under settings the user has changed since are
\* discarded: whenever play() starts precomputed playback (no run being in
\* progress or having been cancelled), every frame it plays was produced under
\* the width, height and quality now in force.
C30_PlaysFramesOfCurrentSettings ==
    [][( /\ playbackMode = "none"
         /\ playbackMode' = "precomputed"
         /\ \A r \in PreRunIds : preRuns[r].pc # "awaiting" /\ ~preRuns[r].cancelled ) =>
          \A i \in 1 .. Len(preprocessedFrames) :
              IsSettingsCompatible(preprocessedFrames[i].settings, SettingsOrDefault)]_vars


\* C28: every sequence taken from the storage as precomputed data is complete:
\* when startPreprocessing or loadVideo accepts saved frames, there are exactly
\* floor(duration x fps) of them.
C28_AcceptedIsComplete ==
    [][/\ \A r \in PreRunIds :
             (preRuns[r].pc = "free" /\ preRuns'[r].pc = "reused") =>
                 Len(preprocessedFrames') = preRuns'[r].totalFrames
       /\ (loading # NoFile /\ loading' = NoFile
             /\ preprocessedFrames' # preprocessedFrames) =>
                 Len(preprocessedFrames') = TotalFrames(loading, appSettings')]_vars

\* The last n elements of a sequence, in order.
LastN(s, n) == SubSeq(s, Len(s) - n + 1, Len(s))

\* C33: after any sequence of adaptQuality calls the latency window holds at
\* most maxSamples samples, and they are exactly the most recent samples
\* handed in, in arrival order.
C33_WindowIsMostRecent ==
    /\ Len(frameTimes) <= maxSamples
    /\ frameTimes = LastN(qcFed, Min(maxSamples, Len(qcFed)))

\* Two samples have been dropped, and the dropped ones differ from the newest.
C33_Overflowed ==
    /\ Len(qcFed) = maxSamples + 2
    /\ qcFed[1] # qcFed[Len(qcFed)]
    /\ qcFed[2] # qcFed[Len(qcFed)]
    /\ Len(frameTimes) = maxSamples

\* s is an initial segment of t.
IsPrefix(s, t) == Len(s) <= Len(t) /\ SubSeq(t, 1, Len(s)) = s

\* A call that has just been answered from the cache.
AnsweredFromCache(c) ==
    call[c].pc = "returned" /\ call[c].attempt = 0 /\ call[c].result # NoBuffer

\* C34: eviction is strict FIFO. A cache hit leaves the eviction order as it
\* was, and in every step the keys keep their relative order: the only key
\* that leaves a cache that is not cleared is the oldest one, and new keys
\* join at the newest end.
C34_HitKeepsEvictionOrder ==
    [][LET old == CacheKeys(frameCache)
           new == CacheKeys(frameCache')
       IN /\ \A c \in Callers :
                (Resting(c) /\ ~Due(c) /\ AnsweredFromCache(c)') => new = old
          /\ \/ new = <<>>
             \/ IsPrefix(old, new)
             \/ old # <<>> /\ IsPrefix(Tail(old), new)]_vars

\* A hit on the oldest key of a full cache: the next miss evicts that key.
C34_HitOnOldest ==
    \E c \in Callers :
        /\ AnsweredFromCache(c)
        /\ Len(frameCache) = cacheSize
        /\ Head(frameCache).key = CacheKey(call[c].time, call[c].width, call[c].height)

\* The callers whose extractFrame call stores its buffer in this step.
Storing ==
    {c \in Callers : ~Due(c) /\ call'[c].pc = "returned" /\ call'[c].attempt > 0}

\* C35: a put for a key that is already in the cache counts as a fresh
\* insertion: after a step in which one call stores a buffer under a key the
\* cache already holds, that key is the newest entry in eviction order.
C35_RewrittenKeyIsNewest ==
    [][\A c \in Callers :
          LET key == CacheKey(call[c].time, call[c].width, call[c].height)
          IN (Storing = {c} /\ CacheHas(frameCache, key)) =>
                frameCache'[Len(frameCache')].key = key]_vars

\* The attempts on the current source that end in this step: unsettled before
\* it, settled (or gone) after it.
EndingAttempts ==
    {cl \in closures :
        /\ Unsettled(cl) /\ ~cl.detached
        /\ video' = video
        /\ ~\E x \in closures' : x.c = cl.c /\ Unsettled(x)}

\* C31: at the end of a sampling attempt (success, timeout or error) the
\* cursor of the source is written back to the position it had before the
\* seek if and only if it differs from that position by more than 0.1 s;
\* otherwise the cursor is left where it is.
C31_CursorRestoredOnDrift ==
    [][\A cl \in closures :
          EndingAttempts = {cl} =>
             IF Abs(videoTime - cl.originalTime) * 10 > 100 * TimeScale
             THEN videoTime' = cl.originalTime
             ELSE videoTime' = videoTime]_vars

\* An attempt that sought further than 0.1 s away was ended by the handler
\* how, and the cursor is back where it was before the seek.
C31_RestoredAfter(how) ==
    \E cl \in closures :
        /\ cl.by = how /\ ~cl.detached
        /\ Abs(cl.time - cl.originalTime) > 10 * TimeScale
        /\ videoTime = cl.originalTime

C31_CursorRestored == C31_RestoredAfter("seeked")

\* C39: the empty frame shown on a sampler failure has the shape of a
\* converted frame of the same dimensions: split into lines the same way, it
\* has exactly asciiHeight lines of exactly asciiWidth blanks and no
\* additional trailing line.
C39_EmptyFrameHasFrameShape ==
    cvEmpty # NotCreated =>
        LET ls == SplitLines(cvEmpty)
        IN /\ Len(ls) = cvSettings.asciiHeight
           /\ \A i \in 1 .. Len(ls) :
                 ls[i] = [x \in 1 .. cvSettings.asciiWidth |-> " "]

\* The glyphs of the ramp.
RampGlyphs == {asciiChars[k + 1] : k \in 0 .. (charCount - 1)}

\* C40: for every buffer of srcW x srcH samples and every grid of at least
\* 1 x 1, convertToASCII reads only indices inside the buffer, every block
\* mean luminance is an integer in 0 .. 255, every glyph index is in 0 .. 9
\* and every character of the frame other than the line breaks is a ramp
\* glyph.
C40_ConverterStaysInRange ==
    cvDone =>
        LET width  == cvImage.width
            height == cvImage.height
            stepX  == StepOf(width, cvSettings.asciiWidth)
            stepY  == StepOf(height, cvSettings.asciiHeight)
            xs     == BlockStarts(width, cvSettings.asciiWidth)
            ys     == BlockStarts(height, cvSettings.asciiHeight)
        IN /\ \A j \in 1 .. Len(ys), i \in 1 .. Len(xs) :
                 /\ BlockReads(width, xs[i], ys[j], stepX, stepY)
                        \subseteq 0 .. (width * height * 4 - 1)
                 /\ LET gray == GrayOfBlock(cvImage.data, width * 4, xs[i], ys[j],
                                            stepX, stepY)
                    IN /\ gray \in 0 .. 255
                       /\ CharIndex(gray) \in 0 .. (charCount - 1)
           /\ \A k \in 1 .. Len(cvFrame) :
                 cvFrame[k] = "\n" \/ cvFrame[k] \in RampGlyphs

\* A white buffer whose width and height leave a partial block, converted in
\* blocks of several samples: the brightest glyph is emitted.
C40_BlocksConverted ==
    /\ cvDone
    /\ cvImage.width = MaxSrc /\ cvImage.height = MaxSrc
    /\ cvSettings = [asciiWidth |-> 2, asciiHeight |-> 2]
    /\ cvFrame # <<>>
    /\ \A k \in 1 .. Len(cvFrame) : cvFrame[k] \in {"@", "\n"}

\* C32: the latency window is emptied by a pipeline reset (cleanup(), the
\* load of a new source): when the source is released the window becomes
\* empty, so that the first adaptQuality call after the reset computes its
\* mean from that call's sample alone.
C32_ResetEmptiesWindow ==
    [][(video # NoVideo /\ video' = NoVideo) => frameTimes' = <<>>]_vars

\* The chains with a tick pending or in flight.
Scheduled(tk) == {i \in TickIds : tk[i].stage \in {"sampling", "timer", "frame"}}

\* C36: a terminal failure stops playback.  When a live tick finds the source
\* handle gone, the driver leaves Playing (isPlaying and isRealtime become
\* false), the display and the counters are reset as by stop(), the chain of
\* the tick ends and no tick is scheduled; and while the driver stays stopped
\* no chain schedules another tick.
C36_SourceLossStopsPlayback ==
    [][/\ (video = NoVideo /\ Len(qcFed') > Len(qcFed)) =>
             /\ ~isPlaying' /\ ~isRealtime'
             /\ container' = NoContent
             /\ currentTime' = 0
             /\ animationId' = NoHandle
             /\ ~audioPlaying'
             /\ Scheduled(ticks') \subseteq Scheduled(ticks)
             /\ \A i \in Scheduled(ticks') : ticks'[i].stage = ticks[i].stage
             /\ Scheduled(ticks') # Scheduled(ticks)
       /\ (~isPlaying /\ ~isPlaying') =>
             /\ Scheduled(ticks') \subseteq Scheduled(ticks)
             /\ \A i \in Scheduled(ticks') : ticks'[i].stage = ticks[i].stage]_vars

\* A tick has found the source gone and the driver is stopped and reset.
C36_StoppedOnLoss ==
    /\ stoppedOnLoss
    /\ video = NoVideo
    /\ ~isPlaying /\ ~isRealtime
    /\ container = NoContent /\ currentTime = 0

\* C38: in live mode every timestamp the driver passes to extractFrame lies
\* in [0, duration] of the source in use, however much time has passed
\* between ticks.
C38_SampledWithinSource ==
    [][\A i \in TickIds :
          (ticks[i].stage # "sampling" /\ ticks'[i].stage = "sampling") =>
             /\ video # NoVideo
             /\ 0 <= ticks'[i].time /\ ticks'[i].time <= duration]_vars

\* A tick that runs after more than the duration has passed since the start
\* samples at the wrapped position, with the audio restarted.
C38_WrappedTick ==
    \E i \in TickIds :
        /\ ticks[i].stage = "sampling"
        /\ ticks[i].wrapped
        /\ ticks[i].time = 0
        /\ startTime = now
        /\ audioPlaying

\* C37: in precomputed mode, whenever the frame list is not empty,
\* 0 <= currentFrame < frames.length, after any sequence of setFrames,
\* startPreprocessedPlayback, play, pause, resume, setFrame, stop and render
\* ticks, whatever time passes between them.
C37_CurrentFrameInList ==
    (frames # <<>> /\ ~isRealtime) =>
        (0 <= currentFrame /\ currentFrame < Len(frames))

\* A renderer that never played was given a list through setFrames, and
\* setFrame moved it to the last frame of the list.
C37_SeekedToLast ==
    /\ ~isPlaying
    /\ audioStarts = 0
    /\ Len(frames) = MaxFrames
    /\ currentFrame = MaxFrames - 1
    /\ container = StoredFrame(MaxFrames - 1)
    /\ lastRender = now /\ now > 0

=============================================================================
